---- MODULE Spec2Model ----
(***************************************************************************)
(* Verification model of the langhook / opensense event pipeline:          *)
(*   - payload fingerprinting           (langhook/map/fingerprint.py)      *)
(*   - the canonicaliser                (langhook/map/service.py,          *)
(*                                       langhook/map/mapper.py,           *)
(*                                       opensense/map/kafka.py)           *)
(*   - the subscription store and API   (langhook/subscriptions/*.py)      *)
(*                                                                         *)
(* JSON / Python values are tagged pairs <<tag, content>>:                 *)
(*   <<"str", s>>  <<"int", s>>  <<"float", s>>  <<"bool", s>>             *)
(*   <<"NoneType", "null">>                                                *)
(*   <<"dict", items>>  items: a sequence of <<key, value>> in insertion   *)
(*                      order, keys pairwise distinct                      *)
(*   <<"list", elems>>  elems: a sequence of values                        *)
(* The tag is the name of the Python type of the value.                    *)
(***************************************************************************)
EXTENDS Naturals, Integers, Sequences, FiniteSets, TLC

VARIABLES
    fp_p,         \* fingerprint harness: first payload
    fp_q,         \* fingerprint harness: second payload
    fp_hp,        \* generate_fingerprint(fp_p) once computed
    fp_hq,        \* generate_fingerprint(fp_q) once computed
    fp_pc,        \* "start", then "done" once both fingerprints are computed
    \* ---- canonicaliser (langhook/map) ----
    raw_stream,        \* raw events published by ingest, in order
    raw_offset,        \* number of raw events the raw consumer has handed to the handler
    ingest_mappings,   \* ingest_mappings table: fingerprint -> mapping_expr
    file_mappings,     \* MappingEngine._mappings: source -> expression (legacy files)
    llm_available,     \* LLMSuggestionService.is_available()
    canonical_stream,  \* envelopes published on the canonical stream, in order
    map_fail_stream,   \* records published on the dead-letter subject, in order
    events_processed,  \* MappingService counters
    events_mapped,
    events_failed,
    llm_invocations,
    map_log,           \* structured log lines of the canonicaliser: {<<message, event id>>}
    \* ---- subscriptions (langhook/subscriptions) ----
    subscriptions,            \* subscriptions table: set of rows
    next_subscription_id,     \* the table's autoincrement id
    consumers,                \* supervisor: running consumers, each with the
                              \* subscription it was started from
    acked,                    \* {<<subscription id, event>>} acknowledged on the stream
    webhook_requests,         \* webhook requests sent, one record per attempt
    subscription_event_logs,  \* subscription_event_logs table: set of rows
    last_op,                  \* the operation that completed last, with its result
    \* ---- raw consumer (opensense/map/kafka.py) ----
    raw_topic_end,    \* number of messages on the raw_ingest topic
    raw_position,     \* consumer position: messages handed out by the iterator
    raw_committed,    \* offset committed for the consumer group
    raw_in_flight,    \* <<i>> while the handler runs on message i, else <<>>
    raw_running,      \* the consume loop is running
    raw_handled,      \* message -> number of completed handler calls
    raw_restarts,     \* number of times the consumer has been started
    \* ---- gate evaluator (langhook/subscriptions/gate.py) ----
    gate_config,         \* the subscription's gate configuration
    gate_llm_available,  \* LLMPatternService.is_available()
    gate_llm_reply,      \* what the chat model does when queried
    gate_return,         \* <<>> until evaluate_event has returned, then its result
    gate_metrics,        \* gate_evaluations_total samples: {<<decision, failover_reason>>}
    \* ---- ingest endpoint (langhook/app.py, opensense/ingest) ----
    ingest_requests,   \* requests handled so far, each with its response status
    ingest_raw_topic,  \* event messages acknowledged on raw_ingest, in order
    ingest_dlq_topic,  \* messages acknowledged on the dead-letter topic, in order
    ingest_log,        \* error log lines of the producer: {<<message, request id>>}
    \* ---- schema registry (langhook/subscriptions/schema_registry.py) ----
    registry_rows,     \* committed rows of event_schema_registry, in insertion order
    registry_tasks,    \* one record per canonicalisation that registers its triple
    registry_summary,  \* what the last get_schema_summary call gave its caller
    registry_log,      \* error log lines of the registry: {<<message, task>>}
    \* ---- delivery envelope (langhook/map/cloudevents.py) ----
    env_canonical_data,  \* the transform result handed to wrap_and_validate
    env_raw_payload,     \* the original payload handed to wrap_and_validate
    env_result,          \* <<>> until wrap_and_validate has returned or raised
    \* ---- consumer supervisor (langhook/subscriptions/consumer_service.py) ----
    sup_store,    \* subscriptions table as the supervisor finds it: set of rows
    sup_running,  \* the supervisor's running consumers
    sup_last,     \* the supervisor or store call that completed last
    \* ---- stream consumer (langhook/core/nats.py) ----
    stream_max_retries,  \* _wait_for_stream(max_retries): the configured number of attempts
    stream_pc,           \* "stopped", "startup", "consuming" or "failed"
    stream_startup_log,  \* outcomes of the stream_info calls of the current start, in order
    stream_sleeps,       \* delays slept between those calls, in units of initial_delay
    stream_errors,       \* consecutive service-unavailable errors of the fetch loop
    stream_fetch_log,    \* one record per fetch: its outcome and whether it reset the connection
    \* ---- concurrent canonicalisers on the ingest-mapping table (langhook/map/mapper.py, langhook/subscriptions/database.py) ----
    mapstore_rows,    \* rows of ingest_mappings, in insertion order
    mapstore_fp,      \* per canonicaliser: the fingerprint of the payload it handles
    mapstore_pc,      \* per canonicaliser: "lookup", "synthesise", "store", "publish" or "done"
    mapstore_result,  \* per canonicaliser: "", "canonical" or "mapping_failure"
    mapstore_log,     \* log records <<message, canonicaliser>>
    \* ---- redelivery to a subscription consumer (langhook/subscriptions/consumer_service.py) ----
    dlv_unacked,    \* messages of the durable consumer that are not acknowledged
    dlv_in_flight,  \* <<message>> while the handler holds it, else <<>>
    dlv_history,    \* per message: how each of its handlings ended, in order
    dlv_webhooks,   \* per message: webhook attempts made
    dlv_log,        \* error log records <<message, step>>
    \* ---- raw consumer loop (opensense/map/kafka.py consume_messages) ----
    loop_batch,      \* the pulled raw events, in order: the kind of each
    loop_next,       \* index of the next raw event the iterator hands out
    loop_in_flight,  \* raw events whose handler has started and not returned
    loop_task,       \* "running" or "terminated"
    loop_canonical,  \* raw-event indices of the canonical events, in publish order
    loop_map_fail,   \* raw-event indices of the mapping-failure records
    loop_log,        \* error log records <<message, raw event index>>
    \* ---- pattern compiler (langhook/subscriptions/llm.py) ----
    compile_description,    \* the subscription's description
    compile_gate_enabled,   \* gate_enabled argument
    compile_llm_available,  \* LLMPatternService.llm_available
    compile_response,       \* what the LLM call gives back
    compile_result,         \* <<>> before the call, then <<returned dict or raised error>>
    \* ---- routing subject of a published canonical event ----
    subj_transform_result,  \* what the transform yields for the payload, before validation
    subj_published          \* <<>> before handling, then <<[accepted, subject]>>

fp_vars == <<fp_p, fp_q, fp_hp, fp_hq, fp_pc>>

map_vars ==
    <<raw_stream, raw_offset, ingest_mappings, file_mappings, llm_available,
      canonical_stream, map_fail_stream, events_processed, events_mapped,
      events_failed, llm_invocations, map_log>>

sub_vars ==
    <<subscriptions, next_subscription_id, consumers, acked, webhook_requests,
      subscription_event_logs, last_op>>

raw_vars ==
    <<raw_topic_end, raw_position, raw_committed, raw_in_flight, raw_running,
      raw_handled, raw_restarts>>

gate_vars ==
    <<gate_config, gate_llm_available, gate_llm_reply, gate_return, gate_metrics>>

ingest_vars ==
    <<ingest_requests, ingest_raw_topic, ingest_dlq_topic, ingest_log>>

registry_vars ==
    <<registry_rows, registry_tasks, registry_summary, registry_log>>

envelope_vars == <<env_canonical_data, env_raw_payload, env_result>>

supervisor_vars ==
    <<sup_store, sup_running, sup_last>>

stream_vars ==
    <<stream_max_retries, stream_pc, stream_startup_log, stream_sleeps,
      stream_errors, stream_fetch_log>>

mapstore_vars ==
    <<mapstore_rows, mapstore_fp, mapstore_pc, mapstore_result,
      mapstore_log>>

delivery_vars ==
    <<dlv_unacked, dlv_in_flight, dlv_history, dlv_webhooks, dlv_log>>

loop_vars ==
    <<loop_batch, loop_next, loop_in_flight, loop_task, loop_canonical,
      loop_map_fail, loop_log>>

compile_vars ==
    <<compile_description, compile_gate_enabled, compile_llm_available,
      compile_response, compile_result>>

subject_vars ==
    <<subj_transform_result, subj_published>>

ext_vars ==
    <<raw_vars, gate_vars, ingest_vars, registry_vars, envelope_vars,
      supervisor_vars, stream_vars, mapstore_vars, delivery_vars, loop_vars,
      compile_vars, subject_vars>>

vars == <<fp_vars, map_vars, sub_vars, ext_vars>>

(***************************************************************************)
(* Python values                                                           *)
(***************************************************************************)
PyStr(s) == <<"str", s>>
PyDict(items) == <<"dict", items>>
PyList(elems) == <<"list", elems>>
PyNone == <<"NoneType", "null">>

IsDict(v) == v[1] = "dict"
IsList(v) == v[1] = "list"
IsScalar(v) == ~IsDict(v) /\ ~IsList(v)

DictKeys(d) == {d[2][i][1] : i \in 1..Len(d[2])}
DictGet(d, k) == d[2][CHOOSE i \in 1..Len(d[2]) : d[2][i][1] = k][2]

(***************************************************************************)
(* Bounds of the payload universe                                          *)
(***************************************************************************)
MaxListLen == 2

\* Keys in lexicographic order; the rank of a key is its index.
KeyAlphabet == <<"a", "b", "c", "d", "id">>
KeyRank(k) == CHOOSE i \in 1..Len(KeyAlphabet) : KeyAlphabet[i] = k

TopKeys == {"b", "a"}
InnerKeys == {"c"}

Scalars ==
    { <<"str", "x">>, <<"str", "y">>, <<"int", "1">>, <<"float", "1.5">>,
      <<"bool", "true">>, PyNone }
InnerScalars == { <<"str", "x">>, <<"int", "1">> }

\* Sequences over S of length at most n.
SeqsUpTo(S, n) == UNION {[1..k -> S] : k \in 0..n}

\* Insertion-ordered dicts with at most n keys from K and values from V.
DictsOver(K, V, n) ==
    { PyDict(items) : items \in
        { s \in SeqsUpTo(K \X V, n) :
            \A i, j \in 1..Len(s) : i # j => s[i][1] # s[j][1] } }

InnerDicts == DictsOver(InnerKeys, {<<"str", "x">>}, 1)
ListElems == { <<"str", "x">>, <<"int", "1">>, PyList(<< <<"int", "1">> >>) } \cup InnerDicts
Lists == { PyList(e) : e \in SeqsUpTo(ListElems, MaxListLen) }

Values == Scalars \cup DictsOver(InnerKeys, InnerScalars, 1) \cup Lists

\* A payload holds key "a" with any value and, optionally, key "b" with a string,
\* in either insertion order.
Payloads ==
    { d \in DictsOver(TopKeys, Values, 2) :
        "b" \in DictKeys(d) => DictGet(d, "b") = <<"str", "x">> }

(***************************************************************************)
(* langhook/map/fingerprint.py                                             *)
(***************************************************************************)
\* A plausible slip: bool folded into number (bool is a subclass of int).
normalize_type_name_bool_as_number(python_type) ==
    CASE python_type = "str" -> "string"
      [] python_type = "int" -> "number"
      [] python_type = "float" -> "number"
      [] python_type = "bool" -> "number"
      [] python_type = "NoneType" -> "null"
      [] OTHER -> python_type

\* _normalize_type_name: type_mapping.get(python_type, python_type.__name__)
normalize_type_name(python_type) ==
    CASE python_type = "str" -> "string"
      [] python_type = "int" -> "number"
      [] python_type = "float" -> "number"
      [] python_type = "bool" -> "boolean"
      [] python_type = "NoneType" -> "null"
      [] OTHER -> python_type

RECURSIVE extract_type_skeleton(_)
extract_type_skeleton(payload) ==
    IF ~IsDict(payload) THEN PyDict(<<>>)
    ELSE PyDict([i \in 1..Len(payload[2]) |->
        LET key == payload[2][i][1]
            value == payload[2][i][2]
        IN  <<key,
              IF IsDict(value) THEN extract_type_skeleton(value)
              ELSE IF IsList(value) THEN
                  IF Len(value[2]) > 0 /\ IsDict(value[2][1])
                  THEN PyList(<<extract_type_skeleton(value[2][1])>>)
                  ELSE IF Len(value[2]) > 0
                  THEN PyList(<<PyStr(normalize_type_name(value[2][1][1]))>>)
                  ELSE PyList(<<>>)
              ELSE PyStr(normalize_type_name(value[1]))>>])

\* json.dumps(..., sort_keys=True): the items of a dict ordered by key.
RECURSIVE sort_keys(_)
sort_keys(items) ==
    IF items = <<>> THEN <<>>
    ELSE LET m == CHOOSE i \in 1..Len(items) :
                    \A j \in 1..Len(items) : KeyRank(items[i][1]) <= KeyRank(items[j][1])
         IN  <<items[m]>> \o
             sort_keys([i \in 1..(Len(items) - 1) |-> IF i < m THEN items[i] ELSE items[i + 1]])

\* A plausible slip: sort_keys=True left out, keys stay in insertion order.
create_canonical_string_unsorted(skeleton) ==
    LET RECURSIVE dumps(_), join(_, _)
        join(parts, i) ==
            IF i > Len(parts) THEN <<>>
            ELSE (IF i > 1 THEN <<",">> ELSE <<>>) \o parts[i] \o join(parts, i + 1)
        dumps(v) ==
            IF IsDict(v) THEN
                <<"{">> \o join([i \in 1..Len(v[2]) |->
                    <<"\"", v[2][i][1], "\"", ":">> \o dumps(v[2][i][2])], 1) \o <<"}">>
            ELSE IF IsList(v) THEN
                <<"[">> \o join([i \in 1..Len(v[2]) |-> dumps(v[2][i])], 1) \o <<"]">>
            ELSE IF v[1] = "str" THEN <<"\"", v[2], "\"">>
            ELSE <<v[2]>>
    IN  dumps(skeleton)

\* create_canonical_string: json.dumps(skeleton, sort_keys=True, separators=(',', ':')),
\* the text as a sequence of tokens.
create_canonical_string(skeleton) ==
    LET RECURSIVE dumps(_), join(_, _)
        join(parts, i) ==
            IF i > Len(parts) THEN <<>>
            ELSE (IF i > 1 THEN <<",">> ELSE <<>>) \o parts[i] \o join(parts, i + 1)
        dumps(v) ==
            IF IsDict(v) THEN
                LET items == sort_keys(v[2])
                IN  <<"{">> \o join([i \in 1..Len(items) |->
                        <<"\"", items[i][1], "\"", ":">> \o dumps(items[i][2])], 1) \o <<"}">>
            ELSE IF IsList(v) THEN
                <<"[">> \o join([i \in 1..Len(v[2]) |-> dumps(v[2][i])], 1) \o <<"]">>
            ELSE IF v[1] = "str" THEN <<"\"", v[2], "\"">>
            ELSE <<v[2]>>
    IN  dumps(skeleton)

\* hashlib.sha256(...).hexdigest(): the digest is kept symbolic; equal texts give
\* equal digests and SHA-256 is taken to be collision free.
sha256_hexdigest(text) == <<"sha256", text>>

\* generate_fingerprint
generate_fingerprint(payload) ==
    sha256_hexdigest(create_canonical_string(extract_type_skeleton(payload)))

(***************************************************************************)
(* The canonicaliser at rest (used by the other specifications).           *)
(***************************************************************************)
MapIdle ==
    /\ raw_stream = <<>>
    /\ raw_offset = 0
    /\ ingest_mappings = <<>>
    /\ file_mappings = <<>>
    /\ llm_available = FALSE
    /\ canonical_stream = <<>>
    /\ map_fail_stream = <<>>
    /\ events_processed = 0
    /\ events_mapped = 0
    /\ events_failed = 0
    /\ llm_invocations = 0
    /\ map_log = {}

(***************************************************************************)
(* The subscription service before any call (used by the other             *)
(* specifications).                                                        *)
(***************************************************************************)
Completed(op, subscription_id, status, warning) ==
    [op |-> op, id |-> subscription_id, status |-> status, warning |-> warning]

SubIdle ==
    /\ subscriptions = {}
    /\ next_subscription_id = 1
    /\ consumers = {}
    /\ acked = {}
    /\ webhook_requests = {}
    /\ subscription_event_logs = {}
    /\ last_op = Completed("none", 0, 0, "")

(***************************************************************************)
(* The raw consumer before it is started (used by the other                *)
(* specifications).                                                        *)
(***************************************************************************)
MaxRawMessages == 2

MaxRestarts == 2

RawIdle ==
    /\ raw_topic_end = 0
    /\ raw_position = 0
    /\ raw_committed = 0
    /\ raw_in_flight = <<>>
    /\ raw_running = FALSE
    /\ raw_handled = [i \in 1..MaxRawMessages |-> 0]
    /\ raw_restarts = 0

\* The gate evaluator before any evaluation.
GateIdle ==
    /\ gate_config = [failover_policy |-> <<>>, threshold |-> <<>>]
    /\ gate_llm_available = FALSE
    /\ gate_llm_reply = [kind |-> "raises", decision |-> <<>>, confidence |-> <<>>]
    /\ gate_return = <<>>
    /\ gate_metrics = {}

\* The ingest endpoint before any request.
IngestIdle ==
    /\ ingest_requests = <<>>
    /\ ingest_raw_topic = <<>>
    /\ ingest_dlq_topic = <<>>
    /\ ingest_log = {}

MaxRegistrations == 2

RegistryTask(triple, pc, pending, failed, raised, waited) ==
    [triple |-> triple, pc |-> pc, published |-> pc # "idle",
     pending |-> pending, failed |-> failed, raised |-> raised,
     waited |-> waited]

SummaryResult(entries, failed, raised) ==
    [entries |-> entries, failed |-> failed, raised |-> raised]

\* The schema registry before any call.
RegistryIdle ==
    /\ registry_rows = <<>>
    /\ registry_tasks =
           [i \in 1..MaxRegistrations |->
               RegistryTask(<<>>, "idle", FALSE, FALSE, FALSE, FALSE)]
    /\ registry_summary = SummaryResult({}, FALSE, FALSE)
    /\ registry_log = {}

\* The envelope harness before any input is drawn.
EnvelopeIdle ==
    /\ env_canonical_data = PyDict(<<>>)
    /\ env_raw_payload = PyDict(<<>>)
    /\ env_result = <<>>

\* The supervisor before any call.
SupervisorIdle ==
    /\ sup_store = {}
    /\ sup_running = {}
    /\ sup_last = [op |-> "none", id |-> 0, stopped |-> {}, started |-> {}]

\* The stream consumer before it is started.
StreamIdle ==
    /\ stream_max_retries = 1
    /\ stream_pc = "stopped"
    /\ stream_startup_log = <<>>
    /\ stream_sleeps = <<>>
    /\ stream_errors = 0
    /\ stream_fetch_log = <<>>

\* No canonicaliser at work on the ingest-mapping table.
MapStoreIdle ==
    /\ mapstore_rows = <<>>
    /\ mapstore_fp = <<>>
    /\ mapstore_pc = <<>>
    /\ mapstore_result = <<>>
    /\ mapstore_log = {}

\* No message on the subscription consumer.
DeliveryIdle ==
    /\ dlv_unacked = {}
    /\ dlv_in_flight = <<>>
    /\ dlv_history = <<>>
    /\ dlv_webhooks = <<>>
    /\ dlv_log = {}

\* The raw consumer loop before it is started.
LoopIdle ==
    /\ loop_batch = <<>>
    /\ loop_next = 1
    /\ loop_in_flight = {}
    /\ loop_task = "running"
    /\ loop_canonical = <<>>
    /\ loop_map_fail = <<>>
    /\ loop_log = {}

\* The pattern compiler before any input is drawn.
CompileIdle ==
    /\ compile_description = ""
    /\ compile_gate_enabled = FALSE
    /\ compile_llm_available = FALSE
    /\ compile_response = <<>>
    /\ compile_result = <<>>

\* The routing-subject harness before any input is drawn.
SubjectIdle ==
    /\ subj_transform_result = PyDict(<<>>)
    /\ subj_published = <<>>

ExtIdle ==
    /\ RawIdle
    /\ GateIdle
    /\ IngestIdle
    /\ RegistryIdle
    /\ EnvelopeIdle
    /\ SupervisorIdle
    /\ StreamIdle
    /\ MapStoreIdle
    /\ DeliveryIdle
    /\ LoopIdle
    /\ CompileIdle
    /\ SubjectIdle

(***************************************************************************)
(* Fingerprint harness: two payloads are drawn, then fingerprinted.        *)
(***************************************************************************)
\* The fingerprint harness at rest (used by the other specifications).
FpIdle ==
    /\ fp_p = PyDict(<<>>)
    /\ fp_q = PyDict(<<>>)
    /\ fp_hp = <<>>
    /\ fp_hq = <<>>
    /\ fp_pc = "start"

FpInit ==
    /\ fp_p \in Payloads
    /\ fp_q \in Payloads
    /\ fp_hp = <<>>
    /\ fp_hq = <<>>
    /\ fp_pc = "start"
    /\ MapIdle
    /\ SubIdle
    /\ ExtIdle

Fingerprint ==
    /\ fp_pc = "start"
    /\ fp_hp' = generate_fingerprint(fp_p)
    /\ fp_hq' = generate_fingerprint(fp_q)
    /\ fp_pc' = "done"
    /\ UNCHANGED <<fp_p, fp_q>>
    /\ UNCHANGED <<map_vars, sub_vars, ext_vars>>

FpNext == Fingerprint

SpecFp == FpInit /\ [][FpNext]_vars

(***************************************************************************)
(* Shape relations between two payloads, used to state the fingerprint     *)
(* properties.  They compare the payloads themselves, not their skeletons. *)
(***************************************************************************)
\* The JSON scalar type of a scalar value: string, number, boolean or null.
JsonScalarType(v) ==
    CASE v[1] = "str" -> "string"
      [] v[1] \in {"int", "float"} -> "number"
      [] v[1] = "bool" -> "boolean"
      [] v[1] = "NoneType" -> "null"

\* u and v have the same key sets and the same scalar types at every nesting
\* level (lists compared element by element).
RECURSIVE SameShape(_, _)
SameShape(u, v) ==
    IF IsDict(u) /\ IsDict(v) THEN
        /\ DictKeys(u) = DictKeys(v)
        /\ \A k \in DictKeys(u) : SameShape(DictGet(u, k), DictGet(v, k))
    ELSE IF IsList(u) /\ IsList(v) THEN
        /\ Len(u[2]) = Len(v[2])
        /\ \A i \in 1..Len(u[2]) : SameShape(u[2][i], v[2][i])
    ELSE IF IsScalar(u) /\ IsScalar(v) THEN JsonScalarType(u) = JsonScalarType(v)
    ELSE FALSE

\* v is u after key additions, key removals, scalar type changes and value
\* changes only: containers stay containers of the same kind and lists keep
\* their length.
RECURSIVE Edited(_, _)
Edited(u, v) ==
    IF IsDict(u) /\ IsDict(v) THEN
        \A k \in DictKeys(u) \cap DictKeys(v) : Edited(DictGet(u, k), DictGet(v, k))
    ELSE IF IsList(u) /\ IsList(v) THEN
        /\ Len(u[2]) = Len(v[2])
        /\ \A i \in 1..Len(u[2]) : Edited(u[2][i], v[2][i])
    ELSE IsScalar(u) /\ IsScalar(v)

\* As SameShape, but a list is compared by its first element only, and a list
\* that is itself the first element of a list is not looked into.
RECURSIVE SameHeadShape(_, _)
SameHeadShape(u, v) ==
    IF IsDict(u) /\ IsDict(v) THEN
        /\ DictKeys(u) = DictKeys(v)
        /\ \A k \in DictKeys(u) : SameHeadShape(DictGet(u, k), DictGet(v, k))
    ELSE IF IsList(u) /\ IsList(v) THEN
        /\ (Len(u[2]) = 0) <=> (Len(v[2]) = 0)
        /\ Len(u[2]) > 0 /\ Len(v[2]) > 0 =>
              \/ IsList(u[2][1]) /\ IsList(v[2][1])
              \/ SameHeadShape(u[2][1], v[2][1])
    ELSE IF IsScalar(u) /\ IsScalar(v) THEN JsonScalarType(u) = JsonScalarType(v)
    ELSE FALSE

\* C9: two payloads with identical key sets and identical per-key scalar types
\* at every nesting level have the same fingerprint; a value change that keeps
\* the shape keeps the fingerprint.
C9_SameShapeSameFingerprint ==
    fp_pc = "done" /\ SameShape(fp_p, fp_q) => fp_hp = fp_hq

\* C9 witness: two different payloads of one shape have been fingerprinted.
C9_Witness ==
    /\ fp_pc = "done"
    /\ fp_p # fp_q
    /\ SameShape(fp_p, fp_q)
    /\ fp_hp = fp_hq

\* C10 as stated: a key addition or removal, or a scalar type change, anywhere
\* in a payload gives a different fingerprint.
C10_AnyShapeChangeChangesFingerprint ==
    fp_pc = "done" /\ Edited(fp_p, fp_q) /\ ~SameShape(fp_p, fp_q) => fp_hp # fp_hq

\* C10 amended: a key addition or removal, or a scalar type change, gives a
\* different fingerprint when it is in the payload object, in an object under
\* object keys, or in the first element of a list (that element an object or a
\* scalar); changes confined to list elements after the first, or inside a
\* list that is itself a list element, are not covered.
C10_HeadShapeChangeChangesFingerprint ==
    fp_pc = "done" /\ Edited(fp_p, fp_q) /\ ~SameHeadShape(fp_p, fp_q) => fp_hp # fp_hq

\* C10 witness: the payloads have the same top-level keys and differ in keys or
\* scalar types below, at a place the skeleton looks at.
C10_Witness ==
    /\ fp_pc = "done"
    /\ Edited(fp_p, fp_q)
    /\ DictKeys(fp_p) = DictKeys(fp_q)
    /\ ~SameHeadShape(fp_p, fp_q)
    /\ fp_hp # fp_hq

(***************************************************************************)
(* Canonicaliser: transform expressions.                                   *)
(*                                                                         *)
(* A mapping expression is JSONata object construction: an object whose    *)
(* leaves are literals or field paths into the payload.  Strings that can  *)
(* become resource ids are kept as sequences of one-character strings so   *)
(* that the id checks can look inside them; an int keeps its digits.       *)
(***************************************************************************)
PyNum(digits) == <<"int", digits>>

Path(key) == <<"path", key>>

InvalidExpr == <<"invalid", "syntax">>

Undefined == <<"undefined", "">>

DictSet(d, k, v) ==
    PyDict([i \in 1..Len(d[2]) |->
                IF d[2][i][1] = k THEN <<k, v>> ELSE d[2][i]])

\* str(value) for the scalars a resource id can be.
py_str(v) ==
    CASE v[1] = "NoneType" -> <<"N", "o", "n", "e">>
      [] OTHER -> v[2]

\* jsonata.transform(expr, payload); a path that matches nothing is
\* undefined, and an object drops its undefined members.
RECURSIVE jsonata_evaluate(_, _)
jsonata_evaluate(expr, payload) ==
    IF expr[1] = "path"
    THEN IF IsDict(payload) /\ expr[2] \in DictKeys(payload)
         THEN DictGet(payload, expr[2])
         ELSE Undefined
    ELSE IF IsDict(expr)
    THEN LET evaluated == [i \in 1..Len(expr[2]) |->
                              <<expr[2][i][1],
                                jsonata_evaluate(expr[2][i][2], payload)>>]
             Defined(item) == item[2][1] # "undefined"
         IN  PyDict(SelectSeq(evaluated, Defined))
    ELSE expr

jsonata_raises(expr) == expr[1] = "invalid"

required_fields == {"publisher", "resource", "action"}

action_mapping(action) ==
    CASE action = "create" -> "created"
      [] action = "update" -> "updated"
      [] action = "delete" -> "deleted"
      [] action = "read" -> "read"
      [] OTHER -> action

valid_actions == {"created", "read", "updated", "deleted"}

generated_valid_actions == {"create", "read", "update", "delete"}

invalid_chars == {"/", "#", " "}

\* The id check of langhook/map/llm.py, which lets a slash through.
invalid_chars_hash_space == {"#", " "}

generated_invalid_chars == {"/", "#", " "}

ContainsAny(chars, invalid) == \E i \in 1..Len(chars) : chars[i] \in invalid

\* The structural checks shared by both validators: a dict with the
\* required fields whose resource is a dict with type and id.
HasCanonicalStructure(result) ==
    /\ IsDict(result)
    /\ required_fields \subseteq DictKeys(result)
    /\ IsDict(DictGet(result, "resource"))
    /\ {"type", "id"} \subseteq DictKeys(DictGet(result, "resource"))

\* MappingEngine._apply_jsonata_mapping: present tense is rewritten to past
\* tense, then the action and the resource id are validated.
apply_jsonata_mapping(mapping_expr, raw_payload) ==
    IF jsonata_raises(mapping_expr) THEN PyNone
    ELSE LET result == jsonata_evaluate(mapping_expr, raw_payload)
         IN  IF ~HasCanonicalStructure(result) THEN PyNone
             ELSE LET action == action_mapping(DictGet(result, "action")[2])
                      resource_id == py_str(DictGet(DictGet(result, "resource"), "id"))
                  IN  IF action \notin valid_actions THEN PyNone
                      ELSE IF ContainsAny(resource_id, invalid_chars) THEN PyNone
                      ELSE DictSet(result, "action", PyStr(action))

\* MappingService._apply_generated_mapping: the action must be a present
\* tense verb and is returned as it is.
apply_generated_mapping(mapping_expr, raw_payload) ==
    IF jsonata_raises(mapping_expr) THEN PyNone
    ELSE LET result == jsonata_evaluate(mapping_expr, raw_payload)
         IN  IF ~HasCanonicalStructure(result) THEN PyNone
             ELSE LET action == DictGet(result, "action")[2]
                      resource_id == py_str(DictGet(DictGet(result, "resource"), "id"))
                  IN  IF action \notin generated_valid_actions THEN PyNone
                      ELSE IF ContainsAny(resource_id, generated_invalid_chars) THEN PyNone
                      ELSE result

\* MappingEngine.apply_mapping: the stored mapping for the payload's
\* fingerprint is used when the lookup returns one (whatever its result);
\* a failed lookup, or no row, falls back to the per-source file mapping.
get_webhook_mapping(store, fingerprint) ==
    {row \in store : row[1] = fingerprint}

get_mapping(files, source) ==
    {row \in files : row[1] = source}

\* apply_mapping without the fingerprint lookup (file mappings only).
apply_mapping_files_only(store, files, source, raw_payload, lookup_ok) ==
    LET file_rows == get_mapping(files, source)
    IN  IF file_rows = {} THEN PyNone
        ELSE apply_jsonata_mapping((CHOOSE row \in file_rows : TRUE)[2], raw_payload)

apply_mapping(store, files, source, raw_payload, lookup_ok) ==
    LET fingerprint == generate_fingerprint(raw_payload)
        webhook_mapping == get_webhook_mapping(store, fingerprint)
        file_rows == get_mapping(files, source)
    IN  IF lookup_ok /\ webhook_mapping # {}
        THEN apply_jsonata_mapping((CHOOSE row \in webhook_mapping : TRUE)[2], raw_payload)
        ELSE IF file_rows = {} THEN PyNone
        ELSE apply_jsonata_mapping((CHOOSE row \in file_rows : TRUE)[2], raw_payload)

(***************************************************************************)
(* CloudEventWrapper (langhook/map/cloudevents.py): the canonical event    *)
(* carries publisher, resource, action, a fresh timestamp and the raw      *)
(* payload; validation requires those fields and a past-tense CRUD action. *)
(***************************************************************************)
crud_actions == {"created", "read", "updated", "deleted"}

create_canonical_event(canonical_data, raw_payload) ==
    PyDict(<< <<"publisher", DictGet(canonical_data, "publisher")>>,
              <<"resource", DictGet(canonical_data, "resource")>>,
              <<"action", DictGet(canonical_data, "action")>>,
              <<"timestamp", PyStr("now")>>,
              <<"payload", raw_payload>> >>)

\* A validator that checks the fields but not the action.
validate_canonical_event_fields_only(canonical_event) ==
    {"publisher", "resource", "action", "timestamp", "payload"}
        \subseteq DictKeys(canonical_event)

validate_canonical_event(canonical_event) ==
    /\ {"publisher", "resource", "action", "timestamp", "payload"}
           \subseteq DictKeys(canonical_event)
    /\ DictGet(canonical_event, "action")[2] \in crud_actions

\* The subject's id part (spec 3.5).  A string id is cut at its dots; when
\* there is at least one dot and every segment names a key of the object
\* reached so far, starting from the original payload, the id is replaced
\* by the value found there.  Anything else is left as it is.
RECURSIVE split_on_dot(_)
split_on_dot(pieces) ==
    IF pieces = <<>> THEN << <<>> >>
    ELSE LET rest == split_on_dot(Tail(pieces))
         IN  IF Head(pieces) = "." THEN << <<>> >> \o rest
             ELSE << <<Head(pieces)>> \o Head(rest) >> \o Tail(rest)

RECURSIVE walk_path(_, _)
walk_path(value, segments) ==
    IF segments = <<>> THEN value
    ELSE IF /\ IsDict(value)
            /\ Len(Head(segments)) = 1
            /\ Head(segments)[1] \in DictKeys(value)
    THEN walk_path(DictGet(value, Head(segments)[1]), Tail(segments))
    ELSE Undefined

\* The id as the transform gave it, with no resolution step.
evaluate_field_path_literal(resource_id, raw_payload) == resource_id

evaluate_field_path(resource_id, raw_payload) ==
    IF resource_id[1] # "str" THEN resource_id
    ELSE LET segments == split_on_dot(resource_id[2])
         IN  IF Len(segments) < 2 THEN resource_id
             ELSE LET resolved == walk_path(raw_payload, segments)
                  IN  IF resolved = Undefined THEN resource_id ELSE resolved

\* "<resource_type>/<id>" as a sequence of pieces.
envelope_subject(canonical_event) ==
    LET resource == DictGet(canonical_event, "resource")
        resource_id == evaluate_field_path(DictGet(resource, "id"),
                                           DictGet(canonical_event, "payload"))
    IN  <<DictGet(resource, "type")[2], "/">> \o py_str(resource_id)

create_cloudevents_envelope(event_id, canonical_event) ==
    [id |-> event_id,
     subject |-> envelope_subject(canonical_event),
     data |-> canonical_event]

(***************************************************************************)
(* MapKafkaProducer: a failed canonical send is re-raised to the caller; a *)
(* failed dead-letter send is logged and swallowed.                        *)
(***************************************************************************)
send_canonical_event(stream, event) == Append(stream, event)

send_mapping_failure(stream, failure_event, send_ok) ==
    IF send_ok THEN Append(stream, failure_event) ELSE stream

(***************************************************************************)
(* Canonicaliser inputs: raw events, stored mappings, LLM replies.         *)
(***************************************************************************)
MaxEvents == 1

RawSources == {"github", "stripe"}

RawIdValues == { PyStr(<<"7">>), PyStr(<<"a", "/", "b">>), PyNum(<<"7">>) }

RawPayloads ==
    {PyDict(<<>>)} \cup { PyDict(<< <<"id", v>> >>) : v \in RawIdValues }

Optional(present, item) == IF present THEN <<item>> ELSE <<>>

IssueResource(id) == PyDict(<< <<"type", PyStr("issue")>>, <<"id", id>> >>)

\* Resource members an expression can build: the well-formed one with its id
\* read from the payload, ones with a literal id, and malformed ones.
ResourceExprs ==
    { IssueResource(Path("id")),
      IssueResource(PyStr(<<"9">>)),
      IssueResource(PyStr(<<"a", "#", "b">>)),
      IssueResource(PyStr(<<"a", " ", "b">>)),
      PyDict(<< <<"type", PyStr("issue")>> >>),
      PyDict(<< <<"id", Path("id")>> >>),
      PyStr(<<"x">>) }

ActionNames ==
    {"created", "read", "updated", "deleted",
     "create", "update", "delete", "opened"}

ObjectExpr(has_publisher, resource, action) ==
    PyDict(Optional(has_publisher, <<"publisher", PyStr("github")>>)
           \o Optional(resource # PyNone, <<"resource", resource>>)
           \o Optional(action # "", <<"action", PyStr(action)>>))

IssueExpr(action) == ObjectExpr(TRUE, IssueResource(Path("id")), action)

\* Object expressions: every action with the well-formed resource, every
\* resource with a valid action, and each required member left out.
ObjectExprs ==
    { IssueExpr(action) : action \in ActionNames \cup {""} }
    \cup { ObjectExpr(TRUE, resource, "read") :
             resource \in ResourceExprs \cup {PyNone} }
    \cup { ObjectExpr(FALSE, IssueResource(Path("id")), "read") }

\* What the LLM can answer: nothing (the call failed), text that is not an
\* expression, a scalar, or any object expression.
LLMReplies == {PyNone, InvalidExpr, PyStr(<<"x">>)} \cup ObjectExprs

StoredExprs == {IssueExpr("create"), IssueExpr("opened")}

StoredFingerprints ==
    { generate_fingerprint(PyDict(<< <<"id", PyStr(<<"7">>)>> >>)) }

IngestMappingTables ==
    { rows \in SUBSET (StoredFingerprints \X StoredExprs) :
        \A r1, r2 \in rows : r1[1] = r2[1] => r1 = r2 }

FileMappings == { <<"github", IssueExpr("updated")>> }

(***************************************************************************)
(* Canonicaliser: state machine.                                           *)
(***************************************************************************)
MapInit ==
    /\ raw_stream = <<>>
    /\ raw_offset = 0
    /\ ingest_mappings \in IngestMappingTables
    /\ file_mappings = FileMappings
    /\ llm_available \in BOOLEAN
    /\ canonical_stream = <<>>
    /\ map_fail_stream = <<>>
    /\ events_processed = 0
    /\ events_mapped = 0
    /\ events_failed = 0
    /\ llm_invocations = 0
    /\ map_log = {}
    /\ FpIdle
    /\ SubIdle
    /\ ExtIdle

\* Ingest publishes one more raw event; event ids are unique.
PublishRawEvent ==
    /\ Len(raw_stream) < MaxEvents
    /\ \E source \in RawSources, payload \in RawPayloads :
          raw_stream' = Append(raw_stream,
                               [id |-> Len(raw_stream) + 1,
                                source |-> source,
                                payload |-> payload])
    /\ UNCHANGED <<raw_offset, ingest_mappings, file_mappings, llm_available,
                   canonical_stream, map_fail_stream, events_processed,
                   events_mapped, events_failed, llm_invocations, map_log>>
    /\ UNCHANGED <<fp_vars, sub_vars, ext_vars>>

\* The dead-letter reason of the early returns of _process_raw_event, or ""
\* when processing goes on to wrap and publish.
mapping_failure_reason(canonical_data, llm_is_available, jsonata_mapping, generated) ==
    IF canonical_data # PyNone THEN ""
    ELSE IF ~llm_is_available THEN "No mapping available for source"
    ELSE IF jsonata_mapping = PyNone THEN "LLM failed to generate mapping suggestion"
    ELSE IF generated = PyNone
    THEN "Generated mapping failed to produce valid canonical data"
    ELSE ""

\* MappingService._process_raw_event applied to the next raw event.  The
\* environment decides whether the mapping lookup, the LLM call and the two
\* producer sends succeed.
process_raw_event ==
    /\ raw_offset < Len(raw_stream)
    /\ \E lookup_ok \in BOOLEAN :
        LET raw_event == raw_stream[raw_offset + 1]
            event_id == raw_event.id
            source == raw_event.source
            payload == raw_event.payload
            mapped == apply_mapping(ingest_mappings, file_mappings,
                                    source, payload, lookup_ok)
            llm_called == mapped = PyNone /\ llm_available
        IN  \E jsonata_mapping \in (IF llm_called THEN LLMReplies ELSE {PyNone}),
               canonical_send_ok \in BOOLEAN, dlq_send_ok \in BOOLEAN :
            LET generated ==
                    IF jsonata_mapping = PyNone THEN PyNone
                    ELSE apply_generated_mapping(jsonata_mapping, payload)
                reason == mapping_failure_reason(mapped, llm_available,
                                                 jsonata_mapping, generated)
                canonical_data == IF mapped # PyNone THEN mapped ELSE generated
                canonical_event ==
                    IF reason = ""
                    THEN create_canonical_event(canonical_data, payload)
                    ELSE PyNone
                wrapped == reason = "" /\ validate_canonical_event(canonical_event)
                published == wrapped /\ canonical_send_ok
                raised == reason = "" /\ ~published
                error ==
                    IF raised
                    THEN IF wrapped THEN "Mapping error: send failed"
                         ELSE "Mapping error: Canonical event validation failed"
                    ELSE reason
                failure_event ==
                    [id |-> event_id, source |-> source,
                     error |-> error, payload |-> payload]
            IN  /\ raw_offset' = raw_offset + 1
                /\ events_processed' = events_processed + 1
                /\ llm_invocations' =
                       llm_invocations + (IF llm_called THEN 1 ELSE 0)
                /\ canonical_stream' =
                       IF published
                       THEN send_canonical_event(
                                canonical_stream,
                                create_cloudevents_envelope(event_id, canonical_event))
                       ELSE canonical_stream
                /\ events_mapped' = events_mapped + (IF published THEN 1 ELSE 0)
                /\ map_fail_stream' =
                       IF published THEN map_fail_stream
                       ELSE send_mapping_failure(map_fail_stream, failure_event,
                                                 dlq_send_ok)
                /\ events_failed' =
                       events_failed
                       + (IF raised THEN 1 ELSE 0)
                       + (IF published THEN 0 ELSE 1)
                /\ map_log' =
                       map_log
                       \cup (IF lookup_ok THEN {}
                             ELSE {<<"Failed to lookup fingerprint mapping", event_id>>})
                       \cup (IF llm_called
                             THEN {<<"No mapping found, attempting LLM suggestion",
                                     event_id>>}
                             ELSE {})
                       \cup (IF wrapped /\ ~canonical_send_ok
                             THEN {<<"Failed to send canonical event to Kafka",
                                     event_id>>}
                             ELSE {})
                       \cup (IF ~published /\ ~dlq_send_ok
                             THEN {<<"Failed to send mapping failure to DLQ",
                                     event_id>>}
                             ELSE {})
    /\ UNCHANGED <<raw_stream, ingest_mappings, file_mappings, llm_available>>
    /\ UNCHANGED <<fp_vars, sub_vars, ext_vars>>

MapNext == PublishRawEvent \/ process_raw_event

SpecMap == MapInit /\ [][MapNext]_vars

(***************************************************************************)
(* Subscription store (langhook/subscriptions/database.py).                *)
(* A row is [id, active, disposable, used, gate]; an optional field of an  *)
(* update is <<>> when absent and <<value>> when present.                  *)
(***************************************************************************)
MaxSubscriptions == 1

MaxCanonicalEvents == 2

Some(S) == {<<>>} \cup { <<x>> : x \in S }

HasRow(rows, subscription_id) == \E r \in rows : r.id = subscription_id

GetRow(rows, subscription_id) == CHOOSE r \in rows : r.id = subscription_id

db_create_subscription(rows, subscription_id, disposable, gate) ==
    rows \cup {[id |-> subscription_id, active |-> TRUE,
                disposable |-> disposable, used |-> FALSE, gate |-> gate]}

\* An update that gives the row a fresh used flag.
db_update_subscription_resetting_used(rows, subscription_id, active, disposable) ==
    { IF r.id # subscription_id THEN r
      ELSE [r EXCEPT !.active = IF active = <<>> THEN @ ELSE active[1],
                     !.disposable = IF disposable = <<>> THEN @ ELSE disposable[1],
                     !.used = FALSE] :
        r \in rows }

db_update_subscription(rows, subscription_id, active, disposable) ==
    { IF r.id # subscription_id THEN r
      ELSE [r EXCEPT !.active = IF active = <<>> THEN @ ELSE active[1],
                     !.disposable = IF disposable = <<>> THEN @ ELSE disposable[1]] :
        r \in rows }

db_delete_subscription(rows, subscription_id) ==
    { r \in rows : r.id # subscription_id }

\* The active set without the exclusion of used disposable subscriptions.
get_all_active_subscriptions_including_used(rows) ==
    { r \in rows : r.active }

get_all_active_subscriptions(rows) ==
    { r \in rows : r.active /\ ~(r.disposable /\ r.used) }

\* A mark that leaves the used flag as it is.
mark_disposable_subscription_as_used_noop(rows, subscription_id) == rows

mark_disposable_subscription_as_used(rows, subscription_id) ==
    IF ~HasRow(rows, subscription_id) THEN rows
    ELSE IF ~GetRow(rows, subscription_id).disposable THEN rows
    ELSE IF GetRow(rows, subscription_id).used THEN rows
    ELSE { IF r.id = subscription_id THEN [r EXCEPT !.used = TRUE] ELSE r :
             r \in rows }

(***************************************************************************)
(* Consumer supervisor (langhook/subscriptions/consumer_service.py), after *)
(* spec 4.7.  A consumer keeps the subscription it was started from.  A    *)
(* call can fail only while starting a consumer; stopping one is local.    *)
(***************************************************************************)
ConsumerFor(row) ==
    [id |-> row.id, disposable |-> row.disposable, gate |-> row.gate]

Startable(row) == row.active /\ ~(row.disposable /\ row.used)

\* A stop that leaves the consumer running.
stop_consumer_ignored(running, subscription_id) == running

stop_consumer(running, subscription_id) ==
    { c \in running : c.id # subscription_id }

add_raises(row, start_ok) == Startable(row) /\ ~start_ok

add_subscription(running, row, start_ok) ==
    IF Startable(row) /\ start_ok
    THEN stop_consumer(running, row.id) \cup {ConsumerFor(row)}
    ELSE running

\* An update that starts the fresh consumer beside the existing one.
update_subscription_without_stop(running, row, start_ok) ==
    IF Startable(row) /\ start_ok THEN running \cup {ConsumerFor(row)} ELSE running

update_subscription(running, row, start_ok) ==
    add_subscription(stop_consumer(running, row.id), row, start_ok)

remove_subscription(running, subscription_id) ==
    stop_consumer(running, subscription_id)

\* A reload that starts the missing consumers and stops none.
reload_starting_only(running, rows) ==
    LET active == get_all_active_subscriptions(rows)
    IN  running \cup { ConsumerFor(r) :
                         r \in { a \in active : \A c \in running : c.id # a.id } }

reload(running, rows) ==
    LET active == get_all_active_subscriptions(rows)
        kept == { c \in running : \E r \in active : r.id = c.id }
    IN  kept \cup { ConsumerFor(r) :
                      r \in { a \in active : \A c \in kept : c.id # a.id } }

(***************************************************************************)
(* Subscription API (langhook/subscriptions/routes.py).  Each handler runs *)
(* the store operation and then the supervisor call; a supervisor call     *)
(* that raises is logged as a warning and the handler still returns        *)
(* success.                                                                *)
(***************************************************************************)
\* create_subscription, lines 68-79: the consumer service is called for an
\* active subscription.
consumers_after_create(running, subscription, start_ok) ==
    IF subscription.active
    THEN add_subscription(running, subscription, start_ok)
    ELSE running

api_create_subscription ==
    /\ next_subscription_id <= MaxSubscriptions
    /\ \E disposable \in BOOLEAN, gate \in BOOLEAN,
          pattern_ok \in BOOLEAN, start_ok \in BOOLEAN :
        IF ~pattern_ok
        THEN /\ last_op' = Completed("create", 0, 422, "")
             /\ UNCHANGED <<subscriptions, next_subscription_id, consumers>>
        ELSE LET subscription_id == next_subscription_id
                 rows == db_create_subscription(subscriptions, subscription_id,
                                                disposable, gate)
                 subscription == GetRow(rows, subscription_id)
                 raised == subscription.active /\ add_raises(subscription, start_ok)
             IN  /\ subscriptions' = rows
                 /\ next_subscription_id' = next_subscription_id + 1
                 /\ consumers' =
                        consumers_after_create(consumers, subscription, start_ok)
                 /\ last_op' =
                        Completed("create", subscription_id, 201,
                                 IF raised
                                 THEN "Failed to add subscription to consumer service"
                                 ELSE "")
    /\ UNCHANGED <<acked, webhook_requests, subscription_event_logs>>
    /\ UNCHANGED <<fp_vars, map_vars, ext_vars>>

\* An update handler that writes the row before looking at the compiler's
\* answer.
rows_after_update_unchecked(rows, subscription_id, active, disposable, pattern_ok) ==
    db_update_subscription(rows, subscription_id, active, disposable)

\* update_subscription, lines 226-250: NoSuitableSchemaError is raised as 422
\* before the store is called.
rows_after_update(rows, subscription_id, active, disposable, pattern_ok) ==
    IF pattern_ok
    THEN db_update_subscription(rows, subscription_id, active, disposable)
    ELSE rows

api_update_subscription ==
    /\ \E subscription_id \in 1..MaxSubscriptions,
          active \in Some(BOOLEAN), disposable \in Some(BOOLEAN),
          pattern_ok \in BOOLEAN, start_ok \in BOOLEAN :
        IF ~pattern_ok
        THEN /\ last_op' = Completed("update", subscription_id, 422, "")
             /\ subscriptions' = rows_after_update(subscriptions, subscription_id,
                                                   active, disposable, pattern_ok)
             /\ UNCHANGED consumers
        ELSE IF ~HasRow(subscriptions, subscription_id)
        THEN /\ last_op' = Completed("update", subscription_id, 404, "")
             /\ UNCHANGED <<subscriptions, consumers>>
        ELSE LET rows == rows_after_update(subscriptions, subscription_id,
                                           active, disposable, pattern_ok)
                 subscription == GetRow(rows, subscription_id)
                 raised == add_raises(subscription, start_ok)
             IN  /\ subscriptions' = rows
                 /\ consumers' = update_subscription(consumers, subscription, start_ok)
                 /\ last_op' =
                        Completed("update", subscription_id, 200,
                                 IF raised
                                 THEN "Failed to update subscription in consumer service"
                                 ELSE "")
    /\ UNCHANGED <<next_subscription_id, acked, webhook_requests,
                   subscription_event_logs>>
    /\ UNCHANGED <<fp_vars, map_vars, ext_vars>>

api_delete_subscription ==
    /\ \E subscription_id \in 1..MaxSubscriptions :
        IF ~HasRow(subscriptions, subscription_id)
        THEN /\ last_op' = Completed("delete", subscription_id, 404, "")
             /\ UNCHANGED <<subscriptions, consumers>>
        ELSE /\ subscriptions' = db_delete_subscription(subscriptions, subscription_id)
             /\ consumers' = remove_subscription(consumers, subscription_id)
             /\ last_op' = Completed("delete", subscription_id, 204, "")
    /\ UNCHANGED <<next_subscription_id, acked, webhook_requests,
                   subscription_event_logs>>
    /\ UNCHANGED <<fp_vars, map_vars, ext_vars>>

\* The periodic reconciliation against the store.
supervisor_reload ==
    /\ consumers' = reload(consumers, subscriptions)
    /\ last_op' = Completed("reload", 0, 0, "")
    /\ UNCHANGED <<subscriptions, next_subscription_id, acked, webhook_requests,
                   subscription_event_logs>>
    /\ UNCHANGED <<fp_vars, map_vars, ext_vars>>

\* A process restart: every consumer is gone, then the startup reload runs.
process_restart ==
    /\ consumers' = reload({}, subscriptions)
    /\ last_op' = Completed("restart", 0, 0, "")
    /\ UNCHANGED <<subscriptions, next_subscription_id, acked, webhook_requests,
                   subscription_event_logs>>
    /\ UNCHANGED <<fp_vars, map_vars, ext_vars>>

(***************************************************************************)
(* Subscription consumer (langhook/subscriptions/consumer_service.py),     *)
(* after spec 4.6: gate, one webhook attempt, event-log row, ack, and the  *)
(* retirement of a disposable subscription after a successful delivery.    *)
(* A webhook status is <<code>>, or <<>> for a transport error.            *)
(***************************************************************************)
WebhookStatuses == { <<200>>, <<500>>, <<>> }

webhook_succeeded(status) == status # <<>> /\ status[1] \in 200..299

\* An acknowledgement given only after a successful delivery.
ack_message_if_delivered(acks, subscription_id, event, status) ==
    IF webhook_succeeded(status) THEN acks \cup {<<subscription_id, event>>}
    ELSE acks

ack_message(acks, subscription_id, event, status) ==
    acks \cup {<<subscription_id, event>>}

send_webhook(requests, consumer, event, status) ==
    requests \cup
        {[subscription_id |-> consumer.id, event |-> event, status |-> status,
          disposable |-> consumer.disposable,
          attempt |-> 1 + Cardinality({r \in requests :
                                          /\ r.subscription_id = consumer.id
                                          /\ r.event = event})]}

\* An event log that records a delivery attempt only when it succeeded.
log_subscription_event_delivered_only(logs, consumer, event, webhook_sent, status, gate_passed) ==
    IF webhook_sent /\ ~webhook_succeeded(status)
    THEN logs
    ELSE logs \cup
            {[subscription_id |-> consumer.id, event |-> event,
              webhook_sent |-> webhook_sent, webhook_status |-> status,
              gate_passed |-> gate_passed]}

\* An event log that records every handled event as sent.
log_subscription_event_as_sent(logs, consumer, event, webhook_sent, status, gate_passed) ==
    logs \cup
        {[subscription_id |-> consumer.id, event |-> event,
          webhook_sent |-> TRUE, webhook_status |-> status,
          gate_passed |-> gate_passed]}

log_subscription_event(logs, consumer, event, webhook_sent, status, gate_passed) ==
    logs \cup
        {[subscription_id |-> consumer.id, event |-> event,
          webhook_sent |-> webhook_sent, webhook_status |-> status,
          gate_passed |-> gate_passed]}

\* The canonical stream receives one more event.
PublishCanonicalEvent ==
    /\ Len(canonical_stream) < MaxCanonicalEvents
    /\ canonical_stream' =
           Append(canonical_stream,
                  [id |-> Len(canonical_stream) + 1, data |-> PyDict(<<>>)])
    /\ UNCHANGED <<raw_stream, raw_offset, ingest_mappings, file_mappings,
                   llm_available, map_fail_stream, events_processed,
                   events_mapped, events_failed, llm_invocations, map_log>>
    /\ last_op' = Completed("publish", 0, 0, "")
    /\ UNCHANGED <<subscriptions, next_subscription_id, consumers, acked,
                   webhook_requests, subscription_event_logs>>
    /\ UNCHANGED <<fp_vars, ext_vars>>

\* A running consumer handles one event of the stream that it has not yet
\* acknowledged.
handle_subscription_event ==
    /\ \E consumer \in consumers, event \in 1..Len(canonical_stream) :
        /\ <<consumer.id, event>> \notin acked
        /\ \E gate_passed \in (IF consumer.gate THEN BOOLEAN ELSE {TRUE}),
              status \in WebhookStatuses :
            LET gate_result == IF consumer.gate THEN <<gate_passed>> ELSE <<>>
                retire == consumer.disposable /\ webhook_succeeded(status)
            IN  IF ~gate_passed
                THEN /\ subscription_event_logs' =
                            log_subscription_event(subscription_event_logs, consumer,
                                                   event, FALSE, <<>>, gate_result)
                     /\ acked' = ack_message(acked, consumer.id, event, <<200>>)
                     /\ last_op' = Completed("handle", consumer.id, 0, "")
                     /\ UNCHANGED <<webhook_requests, subscriptions, consumers>>
                ELSE /\ webhook_requests' =
                            send_webhook(webhook_requests, consumer, event, status)
                     /\ subscription_event_logs' =
                            log_subscription_event(subscription_event_logs, consumer,
                                                   event, TRUE, status, gate_result)
                     /\ acked' = ack_message(acked, consumer.id, event, status)
                     /\ subscriptions' =
                            IF retire
                            THEN mark_disposable_subscription_as_used(subscriptions,
                                                                      consumer.id)
                            ELSE subscriptions
                     /\ consumers' =
                            IF retire THEN stop_consumer(consumers, consumer.id)
                            ELSE consumers
                     /\ last_op' = Completed("handle", consumer.id, 0, "")
    /\ UNCHANGED next_subscription_id
    /\ UNCHANGED <<raw_stream, raw_offset, ingest_mappings, file_mappings,
                   llm_available, canonical_stream, map_fail_stream,
                   events_processed, events_mapped, events_failed,
                   llm_invocations, map_log>>
    /\ UNCHANGED <<fp_vars, ext_vars>>

SubInit ==
    /\ subscriptions = {}
    /\ next_subscription_id = 1
    /\ consumers = {}
    /\ acked = {}
    /\ webhook_requests = {}
    /\ subscription_event_logs = {}
    /\ last_op = Completed("none", 0, 0, "")
    /\ MapIdle
    /\ FpIdle
    /\ ExtIdle

SubNext ==
    \/ api_create_subscription
    \/ api_update_subscription
    \/ api_delete_subscription
    \/ supervisor_reload
    \/ process_restart
    \/ PublishCanonicalEvent
    \/ handle_subscription_event

SpecSub == SubInit /\ [][SubNext]_vars

(***************************************************************************)
(* Raw consumer (opensense/map/kafka.py): an AIOKafkaConsumer in a         *)
(* consumer group with enable_auto_commit.  The iterator advances the      *)
(* position when it hands a message out; the periodic auto-commit and      *)
(* the commit made by stop() store the position as the group's offset.     *)
(***************************************************************************)
not_raw_vars ==
    <<fp_vars, map_vars, sub_vars, gate_vars, ingest_vars, registry_vars,
      envelope_vars, supervisor_vars, stream_vars, mapstore_vars,
      delivery_vars, loop_vars, compile_vars, subject_vars>>

\* KafkaEventProducer.send_event: ingest appends a message to raw_ingest.
produce_raw_message ==
    /\ raw_topic_end < MaxRawMessages
    /\ raw_topic_end' = raw_topic_end + 1
    /\ UNCHANGED <<raw_position, raw_committed, raw_in_flight, raw_running,
                   raw_handled, raw_restarts>>
    /\ UNCHANGED not_raw_vars

\* MapKafkaConsumer.start: the consumer joins its group and resumes from the
\* committed offset (auto_offset_reset only applies when there is none).
consumer_start ==
    /\ ~raw_running
    /\ raw_restarts < MaxRestarts
    /\ raw_running' = TRUE
    /\ raw_position' = raw_committed
    /\ raw_restarts' = raw_restarts + 1
    /\ UNCHANGED <<raw_topic_end, raw_committed, raw_in_flight, raw_handled>>
    /\ UNCHANGED not_raw_vars

\* consume_messages: `async for message in self.consumer` hands out the next
\* message and the handler is awaited on it.
fetch_message ==
    /\ raw_running
    /\ raw_in_flight = <<>>
    /\ raw_position < raw_topic_end
    /\ raw_position' = raw_position + 1
    /\ raw_in_flight' = <<raw_position + 1>>
    /\ UNCHANGED <<raw_topic_end, raw_committed, raw_running, raw_handled,
                   raw_restarts>>
    /\ UNCHANGED not_raw_vars

\* The awaited handler returns or raises; an exception is logged and the
\* loop goes on to the next message.
handler_completes ==
    /\ raw_running
    /\ raw_in_flight # <<>>
    /\ raw_handled' =
           [raw_handled EXCEPT ![raw_in_flight[1]] = raw_handled[raw_in_flight[1]] + 1]
    /\ raw_in_flight' = <<>>
    /\ UNCHANGED <<raw_topic_end, raw_position, raw_committed, raw_running,
                   raw_restarts>>
    /\ UNCHANGED not_raw_vars

\* enable_auto_commit=True, auto_commit_interval_ms=1000: the position is
\* committed in the background.
committed_after_auto_commit(committed, position) == position

auto_commit ==
    /\ raw_running
    /\ raw_committed' = committed_after_auto_commit(raw_committed, raw_position)
    /\ UNCHANGED <<raw_topic_end, raw_position, raw_in_flight, raw_running,
                   raw_handled, raw_restarts>>
    /\ UNCHANGED not_raw_vars

\* Shutdown: the mapping task is cancelled at its current await (waiting for
\* a message or inside the handler), and MappingService.run's finally block
\* stops the consumer, which commits the position.
consumer_shutdown ==
    /\ raw_running
    /\ raw_running' = FALSE
    /\ raw_in_flight' = <<>>
    /\ raw_committed' = raw_position
    /\ UNCHANGED <<raw_topic_end, raw_position, raw_handled, raw_restarts>>
    /\ UNCHANGED not_raw_vars

\* The process is killed: nothing is committed, the group keeps the last
\* committed offset.
consumer_killed ==
    /\ raw_running
    /\ raw_running' = FALSE
    /\ raw_in_flight' = <<>>
    /\ UNCHANGED <<raw_topic_end, raw_position, raw_committed, raw_handled,
                   raw_restarts>>
    /\ UNCHANGED not_raw_vars

RawInit ==
    /\ raw_topic_end = 0
    /\ raw_position = 0
    /\ raw_committed = 0
    /\ raw_in_flight = <<>>
    /\ raw_running = FALSE
    /\ raw_handled = [i \in 1..MaxRawMessages |-> 0]
    /\ raw_restarts = 0
    /\ FpIdle
    /\ MapIdle
    /\ SubIdle
    /\ GateIdle
    /\ IngestIdle
    /\ RegistryIdle
    /\ EnvelopeIdle
    /\ SupervisorIdle
    /\ StreamIdle
    /\ MapStoreIdle
    /\ DeliveryIdle
    /\ LoopIdle
    /\ CompileIdle
    /\ SubjectIdle

RawNext ==
    \/ produce_raw_message
    \/ consumer_start
    \/ fetch_message
    \/ handler_completes
    \/ auto_commit
    \/ consumer_shutdown
    \/ consumer_killed

SpecRaw == RawInit /\ [][RawNext]_vars

(***************************************************************************)
(* Gate evaluator (langhook/subscriptions/gate.py).  Confidence and        *)
(* threshold are kept in tenths.                                           *)
(***************************************************************************)
not_gate_vars ==
    <<fp_vars, map_vars, sub_vars, raw_vars, ingest_vars, registry_vars,
      envelope_vars, supervisor_vars, stream_vars, mapstore_vars,
      delivery_vars, loop_vars, compile_vars, subject_vars>>

\* gate_config.get("threshold", 0.8)
default_threshold == 8

\* gate_config.get("failover_policy", "fail_open")
default_failover_policy == "fail_open"

config_get(config_value, default) ==
    IF config_value = <<>> THEN default ELSE config_value[1]

\* A failover that lets every event through.
failover_decision_always_open(failover_policy) == TRUE

\* decision = failover_policy == "fail_open"
failover_decision(failover_policy) == failover_policy = "fail_open"

\* A parser that reads a reply it cannot parse as a confident yes.
parse_llm_response_trusting(reply) ==
    IF reply.kind = "unparsable"
    THEN [decision |-> TRUE, confidence |-> 10]
    ELSE [decision |-> config_get(reply.decision, FALSE),
          confidence |-> config_get(reply.confidence, 0)]

\* _parse_llm_response: missing fields get defaults; text that is not JSON
\* parses to decision False, confidence 0.0.
parse_llm_response(reply) ==
    IF reply.kind = "unparsable"
    THEN [decision |-> FALSE, confidence |-> 0]
    ELSE [decision |-> config_get(reply.decision, FALSE),
          confidence |-> config_get(reply.confidence, 0)]

GateReturn(decision, failover_reason, confidence) ==
    [decision |-> decision, failover_reason |-> failover_reason,
     confidence |-> confidence]

\* A gate that trusts the raw decision whatever its confidence.
apply_threshold_ignored(raw_decision, confidence, threshold) == raw_decision

\* should_pass = raw_decision and confidence >= threshold
apply_threshold(raw_decision, confidence, threshold) ==
    raw_decision /\ confidence >= threshold

\* An evaluator that treats a reply it cannot parse as an LLM error and
\* applies the failover policy to it.
evaluate_event_result_parse_failover(config, llm_is_available, reply) ==
    LET threshold == config_get(config.threshold, default_threshold)
        failover_policy ==
            config_get(config.failover_policy, default_failover_policy)
    IN  IF ~llm_is_available
        THEN GateReturn(failover_decision(failover_policy), "llm_unavailable", 0)
        ELSE IF reply.kind = "raises"
        THEN GateReturn(failover_decision(failover_policy), "evaluation_error", 0)
        ELSE IF reply.kind = "unparsable"
        THEN GateReturn(failover_decision(failover_policy), "parse_failure", 0)
        ELSE LET decision_data == parse_llm_response(reply)
             IN  GateReturn(apply_threshold(decision_data.decision,
                                            decision_data.confidence, threshold),
                            "", decision_data.confidence)

\* evaluate_event, as the value it returns.
evaluate_event_result(config, llm_is_available, reply) ==
    LET threshold == config_get(config.threshold, default_threshold)
        failover_policy ==
            config_get(config.failover_policy, default_failover_policy)
    IN  IF ~llm_is_available
        THEN GateReturn(failover_decision(failover_policy), "llm_unavailable", 0)
        ELSE IF reply.kind = "raises"
        THEN GateReturn(failover_decision(failover_policy), "evaluation_error", 0)
        ELSE LET decision_data == parse_llm_response(reply)
                 should_pass ==
                     apply_threshold(decision_data.decision,
                                     decision_data.confidence, threshold)
             IN  GateReturn(should_pass, "", decision_data.confidence)

FailoverPolicies == {"fail_open", "fail_closed"}

Thresholds == {5, 8}

Confidences == {3, 8, 9}

GateConfigs ==
    [failover_policy : Some(FailoverPolicies), threshold : Some(Thresholds)]

GateLLMReplies ==
    {[kind |-> "raises", decision |-> <<>>, confidence |-> <<>>],
     [kind |-> "unparsable", decision |-> <<>>, confidence |-> <<>>]}
    \cup [kind : {"json"}, decision : Some(BOOLEAN),
          confidence : Some(Confidences)]

GateInit ==
    /\ gate_config \in GateConfigs
    /\ gate_llm_available \in BOOLEAN
    /\ gate_llm_reply \in GateLLMReplies
    /\ gate_return = <<>>
    /\ gate_metrics = {}
    /\ FpIdle
    /\ MapIdle
    /\ SubIdle
    /\ RawIdle
    /\ IngestIdle
    /\ RegistryIdle
    /\ EnvelopeIdle
    /\ SupervisorIdle
    /\ StreamIdle
    /\ MapStoreIdle
    /\ DeliveryIdle
    /\ LoopIdle
    /\ CompileIdle
    /\ SubjectIdle

evaluate_event ==
    /\ gate_return = <<>>
    /\ LET result == evaluate_event_result(gate_config, gate_llm_available,
                                           gate_llm_reply)
       IN  /\ gate_return' = <<result>>
           /\ gate_metrics' = gate_metrics \cup
                  {<<IF result.decision THEN "pass" ELSE "block",
                     result.failover_reason>>}
    /\ UNCHANGED <<gate_config, gate_llm_available, gate_llm_reply>>
    /\ UNCHANGED not_gate_vars

GateNext == evaluate_event

SpecGate == GateInit /\ [][GateNext]_vars

(***************************************************************************)
(* Ingest endpoint (langhook/app.py ingest_webhook, the same handler as    *)
(* opensense/ingest/app.py) with the producer of opensense/ingest/kafka.py.*)
(***************************************************************************)
not_ingest_vars ==
    <<fp_vars, map_vars, sub_vars, raw_vars, gate_vars, registry_vars,
      envelope_vars, supervisor_vars, stream_vars, mapstore_vars,
      delivery_vars, loop_vars, compile_vars, subject_vars>>

MaxRequests == 2

\* settings.max_body_bytes
max_body_bytes == 1048576

BodySizes == {max_body_bytes, max_body_bytes + 1}

\* verify_signature: True, False, or None when no secret is configured.
SignatureResults == {"valid", "invalid", "unchecked"}

HttpRequests ==
    [body_size : BodySizes, json_ok : BOOLEAN, signature : SignatureResults]

\* A producer that reports success without waiting for the broker.
send_event_fire_and_forget(topic, event_message, send_ok) ==
    [topic |-> IF send_ok THEN Append(topic, event_message) ELSE topic,
     raised |-> FALSE]

\* KafkaEventProducer.send_event: send_and_wait, a failure is logged and
\* re-raised.
send_event(topic, event_message, send_ok) ==
    [topic |-> IF send_ok THEN Append(topic, event_message) ELSE topic,
     raised |-> ~send_ok]

\* KafkaEventProducer.send_dlq: a failure is logged and not re-raised.
send_dlq(topic, dlq_message, send_ok) ==
    IF send_ok THEN Append(topic, dlq_message) ELSE topic

\* An endpoint that publishes before it checks the signature.
ingest_outcome_publish_first(request) ==
    IF request.body_size > max_body_bytes THEN [status |-> 413, publish |-> FALSE]
    ELSE IF ~request.json_ok THEN [status |-> 400, publish |-> FALSE]
    ELSE IF request.signature = "invalid" THEN [status |-> 401, publish |-> TRUE]
    ELSE [status |-> 202, publish |-> TRUE]

\* ingest_webhook: the checks in their order, with the status each raises,
\* and whether send_event is reached (202 is the status if it returns).
ingest_outcome(request) ==
    IF request.body_size > max_body_bytes THEN [status |-> 413, publish |-> FALSE]
    ELSE IF ~request.json_ok THEN [status |-> 400, publish |-> FALSE]
    ELSE IF request.signature = "invalid" THEN [status |-> 401, publish |-> FALSE]
    ELSE [status |-> 202, publish |-> TRUE]

\* ingest_webhook: send_to_dlq is called when json.loads fails.
reaches_dlq(request) ==
    request.body_size <= max_body_bytes /\ ~request.json_ok

ingest_webhook ==
    /\ Len(ingest_requests) < MaxRequests
    /\ \E request \in HttpRequests, publish_ok \in BOOLEAN, dlq_ok \in BOOLEAN :
        LET request_id == Len(ingest_requests) + 1
            outcome == ingest_outcome(request)
            sent == send_event(ingest_raw_topic,
                               [id |-> request_id,
                                signature_valid |-> request.signature],
                               publish_ok)
        IN  /\ ingest_dlq_topic' =
                   IF reaches_dlq(request)
                   THEN send_dlq(ingest_dlq_topic, [id |-> request_id], dlq_ok)
                   ELSE ingest_dlq_topic
            /\ ingest_raw_topic' =
                   IF outcome.publish THEN sent.topic ELSE ingest_raw_topic
            /\ ingest_log' = ingest_log
                   \cup (IF reaches_dlq(request) /\ ~dlq_ok
                         THEN {<<"Failed to send event to DLQ", request_id>>}
                         ELSE {})
                   \cup (IF outcome.publish /\ ~publish_ok
                         THEN {<<"Failed to send event to Kafka", request_id>>}
                         ELSE {})
            /\ ingest_requests' =
                   Append(ingest_requests,
                          [request_id |-> request_id, request |-> request,
                           status |-> IF outcome.publish /\ sent.raised
                                      THEN 500
                                      ELSE outcome.status])
    /\ UNCHANGED not_ingest_vars

IngestInit ==
    /\ ingest_requests = <<>>
    /\ ingest_raw_topic = <<>>
    /\ ingest_dlq_topic = <<>>
    /\ ingest_log = {}
    /\ FpIdle
    /\ MapIdle
    /\ SubIdle
    /\ RawIdle
    /\ GateIdle
    /\ RegistryIdle
    /\ EnvelopeIdle
    /\ SupervisorIdle
    /\ StreamIdle
    /\ MapStoreIdle
    /\ DeliveryIdle
    /\ LoopIdle
    /\ CompileIdle
    /\ SubjectIdle

IngestNext == ingest_webhook

SpecIngest == IngestInit /\ [][IngestNext]_vars

(***************************************************************************)
(* Schema registry (langhook/subscriptions/schema_registry.py).  Each      *)
(* registration runs in a database session of its own: the INSERT          *)
(* statement and the commit are separate steps, and sessions of            *)
(* concurrent canonicalisations interleave.                                *)
(***************************************************************************)
not_registry_vars ==
    <<fp_vars, map_vars, sub_vars, raw_vars, gate_vars, ingest_vars,
      envelope_vars, supervisor_vars, stream_vars, mapstore_vars,
      delivery_vars, loop_vars, compile_vars, subject_vars>>

Triples ==
    {<<"github", "issue", "created">>, <<"github", "issue", "updated">>}

InFlight(task) == task.pc \in {"published", "executed"}

\* A table without the primary key: an insert never conflicts.
conflicts_never(rows, triple) == FALSE

\* PRIMARY KEY (publisher, resource_type, action) and ON CONFLICT (...) DO
\* NOTHING: the insert is skipped when a committed row has the triple.
conflicts(rows, triple) == \E k \in DOMAIN rows : rows[k] = triple

\* A registration that lets a database error reach its caller.
register_failure_raising(task) ==
    [task EXCEPT !.pc = "done", !.pending = FALSE, !.failed = TRUE,
                 !.raised = TRUE]

\* register_event_schema, except branches: the error is logged and not
\* raised; the session is rolled back on exit.
register_failure(task) ==
    [task EXCEPT !.pc = "done", !.pending = FALSE, !.failed = TRUE,
                 !.raised = FALSE]

\* The canonicaliser publishes the delivery envelope of an event with this
\* triple, and goes on to register the triple.
publish_canonical_then_register(i) ==
    /\ registry_tasks[i].pc = "idle"
    /\ \E triple \in Triples :
          registry_tasks' =
              [registry_tasks EXCEPT ![i] =
                  RegistryTask(triple, "published", FALSE, FALSE, FALSE,
                               \E j \in DOMAIN registry_tasks :
                                   /\ j # i
                                   /\ InFlight(registry_tasks[j])
                                   /\ registry_tasks[j].triple = triple)]
    /\ UNCHANGED <<registry_rows, registry_summary, registry_log>>
    /\ UNCHANGED not_registry_vars

\* register_event_schema, session.execute(insert_stmt): the statement waits
\* while another session holds an uncommitted insert of the same triple.
register_execute(i) ==
    /\ registry_tasks[i].pc = "published"
    /\ \E db_ok \in BOOLEAN :
        IF ~db_ok
        THEN /\ registry_tasks' =
                    [registry_tasks EXCEPT ![i] = register_failure(@)]
             /\ registry_log' =
                    registry_log \cup {<<"Failed to register event schema", i>>}
        ELSE /\ ~\E j \in DOMAIN registry_tasks :
                    /\ j # i
                    /\ registry_tasks[j].pending
                    /\ registry_tasks[j].triple = registry_tasks[i].triple
             /\ registry_tasks' =
                    [registry_tasks EXCEPT
                        ![i].pc = "executed",
                        ![i].pending =
                            ~conflicts(registry_rows, registry_tasks[i].triple)]
             /\ UNCHANGED registry_log
    /\ UNCHANGED <<registry_rows, registry_summary>>
    /\ UNCHANGED not_registry_vars

\* register_event_schema, session.commit().
register_commit(i) ==
    /\ registry_tasks[i].pc = "executed"
    /\ \E db_ok \in BOOLEAN :
        IF ~db_ok
        THEN /\ registry_tasks' =
                    [registry_tasks EXCEPT ![i] = register_failure(@)]
             /\ registry_log' =
                    registry_log \cup {<<"Failed to register event schema", i>>}
             /\ UNCHANGED registry_rows
        ELSE /\ registry_rows' =
                    IF registry_tasks[i].pending
                    THEN Append(registry_rows, registry_tasks[i].triple)
                    ELSE registry_rows
             /\ registry_tasks' =
                    [registry_tasks EXCEPT ![i].pc = "done", ![i].pending = FALSE]
             /\ UNCHANGED registry_log
    /\ UNCHANGED registry_summary
    /\ UNCHANGED not_registry_vars

\* get_schema_summary: the distinct entries, or the empty summary when the
\* query fails.
get_schema_summary ==
    /\ \E db_ok \in BOOLEAN :
        IF db_ok
        THEN /\ registry_summary' =
                    SummaryResult({registry_rows[k] : k \in DOMAIN registry_rows},
                                  FALSE, FALSE)
             /\ UNCHANGED registry_log
        ELSE /\ registry_summary' = SummaryResult({}, TRUE, FALSE)
             /\ registry_log' =
                    registry_log \cup {<<"Failed to retrieve schema summary", 0>>}
    /\ UNCHANGED <<registry_rows, registry_tasks>>
    /\ UNCHANGED not_registry_vars

RegistryInit ==
    /\ registry_rows = <<>>
    /\ registry_tasks =
           [i \in 1..MaxRegistrations |->
               RegistryTask(<<>>, "idle", FALSE, FALSE, FALSE, FALSE)]
    /\ registry_summary = SummaryResult({}, FALSE, FALSE)
    /\ registry_log = {}
    /\ FpIdle
    /\ MapIdle
    /\ SubIdle
    /\ RawIdle
    /\ GateIdle
    /\ IngestIdle
    /\ EnvelopeIdle
    /\ SupervisorIdle
    /\ StreamIdle
    /\ MapStoreIdle
    /\ DeliveryIdle
    /\ LoopIdle
    /\ CompileIdle
    /\ SubjectIdle

RegistryNext ==
    \/ \E i \in 1..MaxRegistrations : publish_canonical_then_register(i)
    \/ \E i \in 1..MaxRegistrations : register_execute(i)
    \/ \E i \in 1..MaxRegistrations : register_commit(i)
    \/ get_schema_summary

SpecRegistry == RegistryInit /\ [][RegistryNext]_vars

(***************************************************************************)
(* Delivery envelope harness: a transform result and an original payload   *)
(* are drawn, then CloudEventWrapper.wrap_and_validate is applied.         *)
(***************************************************************************)
not_envelope_vars ==
    <<fp_vars, map_vars, sub_vars, raw_vars, gate_vars, ingest_vars,
      registry_vars, supervisor_vars, stream_vars, mapstore_vars,
      delivery_vars, loop_vars, compile_vars, subject_vars>>

\* Resource ids a transform can give: a number, plain strings, dotted
\* strings of two and three segments, and a URL.
EnvelopeIds ==
    { PyNum(<<"12345">>),
      PyStr(<<"regular_string">>),
      PyStr(<<"user">>),
      PyStr(<<"user", ".", "id">>),
      PyStr(<<"missing", ".", "field">>),
      PyStr(<<"user", ".", "id", ".", "x">>),
      PyStr(<<"https:", "/", "/", "example", ".", "com">>) }

EnvelopePayloads ==
    { PyDict(<<>>),
      PyDict(<< <<"user", PyDict(<< <<"id", PyStr(<<"user123">>)>> >>)>> >>),
      PyDict(<< <<"user", PyDict(<< <<"id", PyNum(<<"42">>)>> >>)>> >>),
      PyDict(<< <<"user", PyStr(<<"bob">>)>>,
                <<"missing", PyDict(<< <<"field", PyStr(<<"f1">>)>> >>)>> >>),
      PyDict(<< <<"user",
                  PyDict(<< <<"id",
                              PyDict(<< <<"x", PyStr(<<"deep">>)>> >>)>> >>)>> >>) }

EnvelopeTypes == {"commit", "resource"}

EnvelopeActions == {"created", "opened"}

EnvelopeCanonicalData ==
    { PyDict(<< <<"publisher", PyStr("github")>>,
                <<"resource",
                  PyDict(<< <<"type", PyStr(type)>>, <<"id", id>> >>)>>,
                <<"action", PyStr(action)>> >>) :
        type \in EnvelopeTypes, id \in EnvelopeIds, action \in EnvelopeActions }

EnvelopeInit ==
    /\ env_canonical_data \in EnvelopeCanonicalData
    /\ env_raw_payload \in EnvelopePayloads
    /\ env_result = <<>>
    /\ FpIdle
    /\ MapIdle
    /\ SubIdle
    /\ RawIdle
    /\ GateIdle
    /\ IngestIdle
    /\ RegistryIdle
    /\ SupervisorIdle
    /\ StreamIdle
    /\ MapStoreIdle
    /\ DeliveryIdle
    /\ LoopIdle
    /\ CompileIdle
    /\ SubjectIdle

\* wrap_and_validate: the canonical event is built and validated; a valid
\* one is returned in its envelope, an invalid one raises.
wrap_and_validate ==
    /\ env_result = <<>>
    /\ LET canonical_event ==
                create_canonical_event(env_canonical_data, env_raw_payload)
       IN  env_result' =
               IF validate_canonical_event(canonical_event)
               THEN [raised |-> FALSE,
                     envelope |-> <<create_cloudevents_envelope(1, canonical_event)>>]
               ELSE [raised |-> TRUE, envelope |-> <<>>]
    /\ UNCHANGED <<env_canonical_data, env_raw_payload>>
    /\ UNCHANGED not_envelope_vars

EnvelopeNext == wrap_and_validate

SpecEnvelope == EnvelopeInit /\ [][EnvelopeNext]_vars

(***************************************************************************)
(* Consumer supervisor on its own (spec 4.7, 5): add, update, remove and   *)
(* reload are called in any order, each under the supervisor's mutex, and  *)
(* the store is also written without the supervisor being told (another    *)
(* writer, or a supervisor call that failed earlier).                      *)
(***************************************************************************)
MaxSupervised == 2

not_supervisor_vars ==
    <<fp_vars, map_vars, sub_vars, raw_vars, gate_vars, ingest_vars,
      registry_vars, envelope_vars, stream_vars, mapstore_vars,
      delivery_vars, loop_vars, compile_vars, subject_vars>>

\* The rows a subscription id can have; used is only ever set on a
\* disposable row.
SupervisedRows(subscription_id) ==
    { row \in [id : {subscription_id}, active : BOOLEAN, disposable : BOOLEAN,
                used : BOOLEAN, gate : {FALSE}] :
        row.used => row.disposable }

ConsumerIds(running) == { c.id : c \in running }

SupervisorCall(op, subscription_id, stopped, started) ==
    [op |-> op, id |-> subscription_id, stopped |-> stopped, started |-> started]

store_write ==
    /\ \E subscription_id \in 1..MaxSupervised :
        \E row \in SupervisedRows(subscription_id) :
            /\ sup_store' = db_delete_subscription(sup_store, subscription_id) \cup {row}
            /\ sup_last' = SupervisorCall("write", subscription_id, {}, {})
    /\ UNCHANGED sup_running
    /\ UNCHANGED not_supervisor_vars

store_delete ==
    /\ \E row \in sup_store :
        /\ sup_store' = db_delete_subscription(sup_store, row.id)
        /\ sup_last' = SupervisorCall("delete", row.id, {}, {})
    /\ UNCHANGED sup_running
    /\ UNCHANGED not_supervisor_vars

supervisor_add ==
    /\ \E row \in sup_store, start_ok \in BOOLEAN :
        /\ sup_running' = add_subscription(sup_running, row, start_ok)
        /\ sup_last' =
               SupervisorCall("add", row.id, {},
                              IF Startable(row) /\ start_ok THEN {row.id} ELSE {})
    /\ UNCHANGED sup_store
    /\ UNCHANGED not_supervisor_vars

supervisor_update ==
    /\ \E row \in sup_store, start_ok \in BOOLEAN :
        /\ sup_running' = update_subscription(sup_running, row, start_ok)
        /\ sup_last' =
               SupervisorCall("update", row.id,
                              ConsumerIds(sup_running) \cap {row.id},
                              IF Startable(row) /\ start_ok THEN {row.id} ELSE {})
    /\ UNCHANGED sup_store
    /\ UNCHANGED not_supervisor_vars

supervisor_remove ==
    /\ \E subscription_id \in 1..MaxSupervised :
        /\ sup_running' = remove_subscription(sup_running, subscription_id)
        /\ sup_last' =
               SupervisorCall("remove", subscription_id,
                              ConsumerIds(sup_running) \cap {subscription_id}, {})
    /\ UNCHANGED sup_store
    /\ UNCHANGED not_supervisor_vars

supervisor_reconcile ==
    /\ sup_running' = reload(sup_running, sup_store)
    /\ LET active == ConsumerIds(get_all_active_subscriptions(sup_store))
       IN  sup_last' =
               SupervisorCall("reload", 0,
                              ConsumerIds(sup_running) \ active,
                              active \ ConsumerIds(sup_running))
    /\ UNCHANGED sup_store
    /\ UNCHANGED not_supervisor_vars

SupervisorInit ==
    /\ sup_store = {}
    /\ sup_running = {}
    /\ sup_last = SupervisorCall("none", 0, {}, {})
    /\ FpIdle
    /\ MapIdle
    /\ SubIdle
    /\ RawIdle
    /\ GateIdle
    /\ IngestIdle
    /\ RegistryIdle
    /\ EnvelopeIdle
    /\ StreamIdle
    /\ MapStoreIdle
    /\ DeliveryIdle
    /\ LoopIdle
    /\ CompileIdle
    /\ SubjectIdle

SupervisorNext ==
    \/ store_write
    \/ store_delete
    \/ supervisor_add
    \/ supervisor_update
    \/ supervisor_remove
    \/ supervisor_reconcile

SpecSupervisor == SupervisorInit /\ [][SupervisorNext]_vars

(***************************************************************************)
(* Stream consumer (langhook/core/nats.py), after spec 4.9 and 7.           *)
(* start() waits for the stream: stream_info is called up to max_retries   *)
(* times, sleeping a doubling delay after each "stream not found"; any     *)
(* other error is raised at once.  The fetch loop counts consecutive       *)
(* "service unavailable" errors and resets the connection, which starts    *)
(* the consumer again, when the count reaches the threshold.               *)
(***************************************************************************)
not_stream_vars ==
    <<fp_vars, map_vars, sub_vars, raw_vars, gate_vars, ingest_vars,
      registry_vars, envelope_vars, supervisor_vars, mapstore_vars,
      delivery_vars, loop_vars, compile_vars, subject_vars>>

MaxConfiguredRetries == 3

MaxFetches == 4

max_consecutive_errors == 3

\* A wait that never gives up.
retries_exhausted_never(attempt, max_retries) == FALSE

retries_exhausted(attempt, max_retries) == attempt >= max_retries

\* initial_delay * 2^(attempt - 1), in units of initial_delay.
startup_delay(attempt) == 2 ^ (attempt - 1)

\* A fetch loop that resets one error late.
reset_due_late(consecutive_errors) == consecutive_errors > max_consecutive_errors

reset_due(consecutive_errors) == consecutive_errors >= max_consecutive_errors

StreamInfoOutcomes == {"found", "stream not found", "connection error"}

FetchOutcomes == {"messages", "service unavailable"}

FetchRecord(outcome, reset) == [outcome |-> outcome, reset |-> reset]

StreamInit ==
    /\ stream_max_retries \in 1..MaxConfiguredRetries
    /\ stream_pc = "startup"
    /\ stream_startup_log = <<>>
    /\ stream_sleeps = <<>>
    /\ stream_errors = 0
    /\ stream_fetch_log = <<>>
    /\ FpIdle
    /\ MapIdle
    /\ SubIdle
    /\ RawIdle
    /\ GateIdle
    /\ IngestIdle
    /\ RegistryIdle
    /\ EnvelopeIdle
    /\ SupervisorIdle
    /\ MapStoreIdle
    /\ DeliveryIdle
    /\ LoopIdle
    /\ CompileIdle
    /\ SubjectIdle

\* One round of _wait_for_stream: a stream_info call and what follows it.
wait_for_stream ==
    /\ stream_pc = "startup"
    /\ \E outcome \in StreamInfoOutcomes :
        LET attempt == Len(stream_startup_log) + 1
        IN  /\ stream_startup_log' = Append(stream_startup_log, outcome)
            /\ IF outcome = "found"
               THEN /\ stream_pc' = "consuming"
                    /\ UNCHANGED stream_sleeps
               ELSE IF outcome = "stream not found"
                       /\ ~retries_exhausted(attempt, stream_max_retries)
               THEN /\ stream_pc' = "startup"
                    /\ stream_sleeps' = Append(stream_sleeps, startup_delay(attempt))
               ELSE /\ stream_pc' = "failed"
                    /\ UNCHANGED stream_sleeps
    /\ UNCHANGED <<stream_max_retries, stream_errors, stream_fetch_log>>
    /\ UNCHANGED not_stream_vars

\* One round of the fetch loop of consume_messages.
fetch_messages ==
    /\ stream_pc = "consuming"
    /\ Len(stream_fetch_log) < MaxFetches
    /\ \E outcome \in FetchOutcomes :
        IF outcome = "messages"
        THEN /\ stream_errors' = 0
             /\ stream_fetch_log' =
                    Append(stream_fetch_log, FetchRecord(outcome, FALSE))
             /\ UNCHANGED <<stream_pc, stream_startup_log, stream_sleeps>>
        ELSE IF reset_due(stream_errors + 1)
        THEN \* _reset_connection: clean up, then start() again
             /\ stream_errors' = 0
             /\ stream_fetch_log' =
                    Append(stream_fetch_log, FetchRecord(outcome, TRUE))
             /\ stream_pc' = "startup"
             /\ stream_startup_log' = <<>>
             /\ stream_sleeps' = <<>>
        ELSE /\ stream_errors' = stream_errors + 1
             /\ stream_fetch_log' =
                    Append(stream_fetch_log, FetchRecord(outcome, FALSE))
             /\ UNCHANGED <<stream_pc, stream_startup_log, stream_sleeps>>
    /\ UNCHANGED stream_max_retries
    /\ UNCHANGED not_stream_vars

StreamNext ==
    \/ wait_for_stream
    \/ fetch_messages

SpecStream == StreamInit /\ [][StreamNext]_vars

(***************************************************************************)
(* Canonicalisers that meet on the ingest-mapping table: each looks its    *)
(* payload's fingerprint up, has the LLM synthesise the canonical event on *)
(* a miss, stores the mapping (mapper.py store_mapping_from_canonical,     *)
(* database.py create_ingestion_mapping) and publishes.                    *)
(***************************************************************************)
not_mapstore_vars ==
    <<fp_vars, map_vars, sub_vars, raw_vars, gate_vars, ingest_vars,
      registry_vars, envelope_vars, supervisor_vars, stream_vars,
      delivery_vars, loop_vars, compile_vars, subject_vars>>

MaxCanonicalisers == 2

CanonicaliserIds == 1..MaxCanonicalisers

MapStoreFingerprints == {"fp_a", "fp_b"}

RowsOf(rows, fingerprint) ==
    {k \in DOMAIN rows : rows[k].fingerprint = fingerprint}

\* A table without a key on fingerprint: every insert adds a row.
create_ingestion_mapping_without_key(rows, fingerprint, task) ==
    [rows |-> Append(rows, [fingerprint |-> fingerprint, by |-> task]),
     raised |-> ""]

\* session.add(mapping); session.commit() on ingest_mappings, whose primary
\* key is fingerprint: the commit of a second row with the key raises.
create_ingestion_mapping(rows, fingerprint, task) ==
    IF RowsOf(rows, fingerprint) # {}
    THEN [rows |-> rows, raised |-> "IntegrityError"]
    ELSE [rows |-> Append(rows, [fingerprint |-> fingerprint, by |-> task]),
          raised |-> ""]

MapStoreLog(message, task, error) ==
    [message |-> message, task |-> task, error |-> error]

MapStoreInit ==
    /\ mapstore_rows = <<>>
    /\ mapstore_fp \in [CanonicaliserIds -> MapStoreFingerprints]
    /\ mapstore_pc = [task \in CanonicaliserIds |-> "lookup"]
    /\ mapstore_result = [task \in CanonicaliserIds |-> ""]
    /\ mapstore_log = {}
    /\ FpIdle
    /\ MapIdle
    /\ SubIdle
    /\ RawIdle
    /\ GateIdle
    /\ IngestIdle
    /\ RegistryIdle
    /\ EnvelopeIdle
    /\ SupervisorIdle
    /\ StreamIdle
    /\ DeliveryIdle
    /\ LoopIdle
    /\ CompileIdle
    /\ SubjectIdle

\* db_service.get_ingestion_mapping(fingerprint): a hit goes on to publish
\* with the stored mapping, a miss goes to the LLM.
get_ingestion_mapping ==
    \E task \in CanonicaliserIds :
        /\ mapstore_pc[task] = "lookup"
        /\ mapstore_pc' =
               [mapstore_pc EXCEPT ![task] =
                   IF RowsOf(mapstore_rows, mapstore_fp[task]) # {}
                   THEN "publish" ELSE "synthesise"]
        /\ UNCHANGED <<mapstore_rows, mapstore_fp, mapstore_result,
                       mapstore_log>>
        /\ UNCHANGED not_mapstore_vars

\* The LLM transform: a canonical event, or the mapping failure of an LLM
\* that is unavailable or gives nothing usable.
transform_to_canonical ==
    \E task \in CanonicaliserIds, llm_ok \in BOOLEAN :
        /\ mapstore_pc[task] = "synthesise"
        /\ IF llm_ok
           THEN /\ mapstore_pc' = [mapstore_pc EXCEPT ![task] = "store"]
                /\ UNCHANGED mapstore_result
           ELSE /\ mapstore_pc' = [mapstore_pc EXCEPT ![task] = "done"]
                /\ mapstore_result' =
                       [mapstore_result EXCEPT ![task] = "mapping_failure"]
        /\ UNCHANGED <<mapstore_rows, mapstore_fp, mapstore_log>>
        /\ UNCHANGED not_mapstore_vars

\* store_mapping_from_canonical: the insert inside try/except; whatever is
\* raised (the key violation, or any other failure of the call) is logged
\* and not re-raised.
store_mapping_from_canonical ==
    \E task \in CanonicaliserIds, call_raises \in BOOLEAN :
        /\ mapstore_pc[task] = "store"
        /\ LET created ==
                   IF call_raises
                   THEN [rows |-> mapstore_rows, raised |-> "Exception"]
                   ELSE create_ingestion_mapping(mapstore_rows,
                                                 mapstore_fp[task], task)
           IN  /\ mapstore_rows' = created.rows
               /\ mapstore_log' = mapstore_log \cup
                      {IF created.raised = ""
                       THEN MapStoreLog(
                                "Stored new mapping from canonical data",
                                task, "")
                       ELSE MapStoreLog(
                                "Failed to store mapping from canonical data",
                                task, created.raised)}
        /\ mapstore_pc' = [mapstore_pc EXCEPT ![task] = "publish"]
        /\ UNCHANGED <<mapstore_fp, mapstore_result>>
        /\ UNCHANGED not_mapstore_vars

\* The canonical event is published.
publish_canonical ==
    \E task \in CanonicaliserIds :
        /\ mapstore_pc[task] = "publish"
        /\ mapstore_pc' = [mapstore_pc EXCEPT ![task] = "done"]
        /\ mapstore_result' = [mapstore_result EXCEPT ![task] = "canonical"]
        /\ UNCHANGED <<mapstore_rows, mapstore_fp, mapstore_log>>
        /\ UNCHANGED not_mapstore_vars

MapStoreNext ==
    \/ get_ingestion_mapping
    \/ transform_to_canonical
    \/ store_mapping_from_canonical
    \/ publish_canonical

SpecMapStore == MapStoreInit /\ [][MapStoreNext]_vars

(***************************************************************************)
(* Redelivery to a subscription consumer (spec 4.6): the durable pull      *)
(* consumer keeps a message until it is acknowledged; the handler          *)
(* acknowledges at its fifth step.                                         *)
(***************************************************************************)
not_delivery_vars ==
    <<fp_vars, map_vars, sub_vars, raw_vars, gate_vars, ingest_vars,
      registry_vars, envelope_vars, supervisor_vars, stream_vars,
      mapstore_vars, loop_vars, compile_vars, subject_vars>>

MaxStreamMessages == 2

MaxDeliveries == 2

StreamMessages == 1..MaxStreamMessages

\* How one handling ends: an exception in step 1 (decode), step 2 (gate and
\* its log row) or step 4 (event-log row), or the ack after a blocked or a
\* delivered event.  A webhook transport error is a null status, not an
\* exception (step 3).
RaisedOutcomes == {"raised_decode", "raised_gate", "raised_event_log"}

HandlerOutcomes == RaisedOutcomes \cup {"blocked", "delivered"}

\* The webhook attempt of step 3 was made.
reached_webhook(outcome) == outcome \in {"raised_event_log", "delivered"}

\* A handler that acknowledges whether or not it raised.
unacked_after_ack_always(unacked, message, outcome) == unacked \ {message}

\* Step 5 is reached only when nothing raised before it.
unacked_after(unacked, message, outcome) ==
    IF outcome \in RaisedOutcomes THEN unacked ELSE unacked \ {message}

DeliveryInit ==
    /\ dlv_unacked = StreamMessages
    /\ dlv_in_flight = <<>>
    /\ dlv_history = [message \in StreamMessages |-> <<>>]
    /\ dlv_webhooks = [message \in StreamMessages |-> 0]
    /\ dlv_log = {}
    /\ FpIdle
    /\ MapIdle
    /\ SubIdle
    /\ RawIdle
    /\ GateIdle
    /\ IngestIdle
    /\ RegistryIdle
    /\ EnvelopeIdle
    /\ SupervisorIdle
    /\ StreamIdle
    /\ MapStoreIdle
    /\ LoopIdle
    /\ CompileIdle
    /\ SubjectIdle

\* The stream hands an unacknowledged message to the consumer (first
\* delivery or redelivery).
deliver_message(message) ==
    /\ dlv_in_flight = <<>>
    /\ message \in dlv_unacked
    /\ Len(dlv_history[message]) < MaxDeliveries
    /\ dlv_in_flight' = <<message>>
    /\ UNCHANGED <<dlv_unacked, dlv_history, dlv_webhooks, dlv_log>>
    /\ UNCHANGED not_delivery_vars

deliver ==
    \E message \in StreamMessages : deliver_message(message)

\* The handler runs on the message it holds.
handle_message ==
    /\ dlv_in_flight # <<>>
    /\ \E outcome \in HandlerOutcomes :
        LET message == dlv_in_flight[1]
        IN  /\ dlv_history' =
                   [dlv_history EXCEPT ![message] = Append(@, outcome)]
            /\ dlv_webhooks' =
                   [dlv_webhooks EXCEPT ![message] =
                       IF reached_webhook(outcome) THEN @ + 1 ELSE @]
            /\ dlv_unacked' = unacked_after(dlv_unacked, message, outcome)
            /\ dlv_log' =
                   IF outcome \in RaisedOutcomes
                   THEN dlv_log \cup {<<message, outcome>>}
                   ELSE dlv_log
    /\ dlv_in_flight' = <<>>
    /\ UNCHANGED not_delivery_vars

DeliveryNext ==
    \/ deliver
    \/ handle_message

SpecDelivery == DeliveryInit /\ [][DeliveryNext]_vars

(***************************************************************************)
(* Raw consumer loop (opensense/map/kafka.py consume_messages) around the  *)
(* handler MappingService._process_raw_event, each raw event reduced to    *)
(* the way its handling can go.                                            *)
(***************************************************************************)
not_loop_vars ==
    <<fp_vars, map_vars, sub_vars, raw_vars, gate_vars, ingest_vars,
      registry_vars, envelope_vars, supervisor_vars, stream_vars,
      mapstore_vars, delivery_vars, compile_vars, subject_vars>>

MaxBatch == 2

\* "mapped": a mapping yields a valid canonical event; "unmapped": one of the
\* early returns; "invalid": wrap_and_validate raises; "malformed": the raw
\* event or its payload is not an object, so raw_event.get / payload.keys
\* raises before the try block.
RawEventKinds == {"mapped", "unmapped", "invalid", "malformed"}

\* map_producer.send_mapping_failure: sent, failed and swallowed, or the
\* producer cannot be started (raised before its try block).
DlqSendResults == {"sent", "swallowed", "raises"}

\* _process_raw_event as what it leaves behind: a canonical event, a
\* mapping-failure record, and whether an exception escapes to the loop.
process_raw_event_result(kind, canonical_send_ok, dlq_send) ==
    IF kind = "malformed"
    THEN [canonical |-> FALSE, map_fail |-> FALSE, escapes |-> TRUE,
          caught |-> FALSE]
    ELSE IF kind = "mapped" /\ canonical_send_ok
    THEN [canonical |-> TRUE, map_fail |-> FALSE, escapes |-> FALSE,
          caught |-> FALSE]
    ELSE [canonical |-> FALSE, map_fail |-> dlq_send = "sent",
          escapes |-> dlq_send = "raises", caught |-> kind # "unmapped"]

\* A loop that starts each handler as a task of its own.
iterator_ready_unawaited(in_flight) == TRUE

\* "await self.message_handler(message.value)": the iterator is asked for
\* the next message only after the handler has returned.
iterator_ready(in_flight) == in_flight = {}

\* A loop without the inner try/except.
task_after_handler_uncaught(task, escapes) ==
    IF escapes THEN "terminated" ELSE task

\* except Exception inside the loop: logged, "Continue processing other
\* messages".
task_after_handler(task, escapes) == task

LoopInit ==
    /\ loop_batch \in [1..MaxBatch -> RawEventKinds]
    /\ loop_next = 1
    /\ loop_in_flight = {}
    /\ loop_task = "running"
    /\ loop_canonical = <<>>
    /\ loop_map_fail = <<>>
    /\ loop_log = {}
    /\ FpIdle
    /\ MapIdle
    /\ SubIdle
    /\ RawIdle
    /\ GateIdle
    /\ IngestIdle
    /\ RegistryIdle
    /\ EnvelopeIdle
    /\ SupervisorIdle
    /\ StreamIdle
    /\ MapStoreIdle
    /\ DeliveryIdle
    /\ CompileIdle
    /\ SubjectIdle

\* async for message in self.consumer: the next message, handler started.
take_message ==
    /\ loop_task = "running"
    /\ loop_next <= Len(loop_batch)
    /\ iterator_ready(loop_in_flight)
    /\ loop_in_flight' = loop_in_flight \cup {loop_next}
    /\ loop_next' = loop_next + 1
    /\ UNCHANGED <<loop_batch, loop_task, loop_canonical, loop_map_fail,
                   loop_log>>
    /\ UNCHANGED not_loop_vars

\* The handler of a message returns or raises.
handler_returns ==
    /\ loop_task = "running"
    /\ \E index \in loop_in_flight, canonical_send_ok \in BOOLEAN,
          dlq_send \in DlqSendResults :
        LET result == process_raw_event_result(loop_batch[index],
                                               canonical_send_ok, dlq_send)
        IN  /\ loop_in_flight' = loop_in_flight \ {index}
            /\ loop_canonical' =
                   IF result.canonical THEN Append(loop_canonical, index)
                   ELSE loop_canonical
            /\ loop_map_fail' =
                   IF result.map_fail THEN Append(loop_map_fail, index)
                   ELSE loop_map_fail
            /\ loop_log' =
                   loop_log
                   \cup (IF result.caught /\ ~result.escapes
                         THEN {<<"Failed to process raw event", index>>}
                         ELSE {})
                   \cup (IF result.escapes
                         THEN {<<"Error processing message", index>>}
                         ELSE {})
            /\ loop_task' = task_after_handler(loop_task, result.escapes)
    /\ UNCHANGED <<loop_batch, loop_next>>
    /\ UNCHANGED not_loop_vars

\* The iterator itself raises (broker error): the outer except logs and
\* re-raises, the task ends.
consumption_loop_fails ==
    /\ loop_task = "running"
    /\ loop_in_flight = {}
    /\ loop_task' = "terminated"
    /\ loop_log' = loop_log \cup {<<"Error in message consumption loop", 0>>}
    /\ UNCHANGED <<loop_batch, loop_next, loop_in_flight, loop_canonical,
                   loop_map_fail>>
    /\ UNCHANGED not_loop_vars

LoopNext ==
    \/ take_message
    \/ handler_returns
    \/ consumption_loop_fails

SpecLoop == LoopInit /\ [][LoopNext]_vars

(***************************************************************************)
(* Pattern compiler (langhook/subscriptions/llm.py): description and       *)
(* gate_enabled in, {pattern, gate_prompt?} out.  An LLM response is       *)
(* reduced to what the parser looks for in it.                             *)
(***************************************************************************)
not_compile_vars ==
    <<fp_vars, map_vars, sub_vars, raw_vars, gate_vars, ingest_vars,
      registry_vars, envelope_vars, supervisor_vars, stream_vars,
      mapstore_vars, delivery_vars, loop_vars, subject_vars>>

Descriptions == {"Notify me when PR 1374 is approved", "Stripe refunds"}

LLMPattern == "langhook.events.github.pull_request.1374.updated"

LLMGatePrompt == "Evaluate if this event is an approval of PR 1374."

\* "json": a JSON object, with or without the keys pattern and gate_prompt;
\* "text": not JSON, with or without a pattern somewhere in it; "marker":
\* the no-suitable-schema answer; "raises": the call fails.
PatternResponses ==
    [kind : {"json"}, pattern : Some({LLMPattern}),
     gate_prompt : Some({LLMGatePrompt})]
    \cup [kind : {"text"}, pattern : Some({LLMPattern}), gate_prompt : {<<>>}]
    \cup [kind : {"marker", "raises"}, pattern : {<<>>}, gate_prompt : {<<>>}]

CompileResult(pattern, gate_prompt, error) ==
    [pattern |-> pattern, gate_prompt |-> gate_prompt, error |-> error]

\* _fallback_pattern_conversion: keyword detection over the description.
fallback_pattern_conversion(description) == <<"fallback pattern", description>>

\* _fallback_gate_prompt: a template around the description.
fallback_gate_prompt(description) ==
    <<"Evaluate if this event matches the subscription: ", description,
      " Return ONLY a JSON object: {decision: true or false}">>

\* The gate prompt _parse_llm_response makes up for a plain-text pattern.
generic_gate_prompt ==
    "Evaluate if this event matches the subscription criteria. Return {\"decision\": true or false}"

\* LLMPatternService._parse_llm_response: None is <<>>; a returned dict is
\* <<[pattern, gate_prompt]>> with <<>> for a missing key.
pattern_parse_llm_response(response, gate_enabled) ==
    IF gate_enabled
    THEN IF response.kind = "json" /\ response.pattern # <<>>
         THEN << [pattern |-> response.pattern,
                  gate_prompt |-> response.gate_prompt] >>
         ELSE IF response.pattern # <<>>
         THEN << [pattern |-> response.pattern,
                  gate_prompt |-> <<generic_gate_prompt>>] >>
         ELSE <<>>
    ELSE IF response.pattern # <<>>
         THEN << [pattern |-> response.pattern, gate_prompt |-> <<>>] >>
         ELSE <<>>

\* The deterministic fallback of convert_to_pattern_and_gate.
fallback_result(description, gate_enabled) ==
    CompileResult(<<fallback_pattern_conversion(description)>>,
                  IF gate_enabled THEN <<fallback_gate_prompt(description)>>
                  ELSE <<>>,
                  "")

convert_to_pattern_and_gate(description, gate_enabled, llm_is_available, response) ==
    IF ~llm_is_available THEN fallback_result(description, gate_enabled)
    ELSE IF response.kind = "raises"
    THEN fallback_result(description, gate_enabled)
    ELSE IF response.kind = "marker"
    THEN CompileResult(<<>>, <<>>, "NoSuitableSchemaError")
    ELSE LET result == pattern_parse_llm_response(response, gate_enabled)
         IN  IF result # <<>>
             THEN CompileResult(result[1].pattern, result[1].gate_prompt, "")
             ELSE fallback_result(description, gate_enabled)

CompileInit ==
    /\ compile_description \in Descriptions
    /\ compile_gate_enabled \in BOOLEAN
    /\ compile_llm_available \in BOOLEAN
    /\ compile_response \in PatternResponses
    /\ compile_result = <<>>
    /\ FpIdle
    /\ MapIdle
    /\ SubIdle
    /\ RawIdle
    /\ GateIdle
    /\ IngestIdle
    /\ RegistryIdle
    /\ EnvelopeIdle
    /\ SupervisorIdle
    /\ StreamIdle
    /\ MapStoreIdle
    /\ DeliveryIdle
    /\ LoopIdle
    /\ SubjectIdle

compile_subscription ==
    /\ compile_result = <<>>
    /\ compile_result' =
           <<convert_to_pattern_and_gate(compile_description,
                                         compile_gate_enabled,
                                         compile_llm_available,
                                         compile_response)>>
    /\ UNCHANGED <<compile_description, compile_gate_enabled,
                   compile_llm_available, compile_response>>
    /\ UNCHANGED not_compile_vars

CompileNext == compile_subscription

SpecCompile == CompileInit /\ [][CompileNext]_vars

(***************************************************************************)
(* Routing subject (spec 3.6): a transform result that passes the          *)
(* validation of MappingEngine._apply_jsonata_mapping is published on      *)
(* langhook.events.<publisher>.<resource_type>.<resource_id>.<action>.     *)
(* A string is a sequence of pieces in which "." is a piece of its own.    *)
(***************************************************************************)
not_subject_vars ==
    <<fp_vars, map_vars, sub_vars, raw_vars, gate_vars, ingest_vars,
      registry_vars, envelope_vars, supervisor_vars, stream_vars,
      mapstore_vars, delivery_vars, loop_vars, compile_vars>>

SubjectIds ==
    { PyStr(<<"1374">>),
      PyNum(<<"7">>),
      PyStr(<<"a", "/", "b">>),
      PyStr(<<"1728447902", ".", "000200">>),
      PyStr(<<"v1", ".", "2", ".", "3">>) }

SubjectPublishers == {"github", "slack"}

SubjectTypes == {"pull_request", "message"}

SubjectActions == {"create", "updated", "opened"}

SubjectTransformResults ==
    { PyDict(<< <<"publisher", PyStr(publisher)>>,
                <<"resource",
                  PyDict(<< <<"type", PyStr(type)>>, <<"id", id>> >>)>>,
                <<"action", PyStr(action)>> >>) :
        publisher \in SubjectPublishers, type \in SubjectTypes,
        id \in SubjectIds, action \in SubjectActions }

\* f"langhook.events.{publisher}.{resource_type}.{resource_id}.{action}"
routing_subject(canonical_data) ==
    LET resource == DictGet(canonical_data, "resource")
    IN  <<"langhook", ".", "events", ".",
          DictGet(canonical_data, "publisher")[2], ".",
          DictGet(resource, "type")[2], ".">>
        \o py_str(DictGet(resource, "id"))
        \o <<".", DictGet(canonical_data, "action")[2]>>

\* The dot-separated tokens of a subject.
subject_tokens(subject) == split_on_dot(subject)

SubjectInit ==
    /\ subj_transform_result \in SubjectTransformResults
    /\ subj_published = <<>>
    /\ FpIdle
    /\ MapIdle
    /\ SubIdle
    /\ RawIdle
    /\ GateIdle
    /\ IngestIdle
    /\ RegistryIdle
    /\ EnvelopeIdle
    /\ SupervisorIdle
    /\ StreamIdle
    /\ MapStoreIdle
    /\ DeliveryIdle
    /\ LoopIdle
    /\ CompileIdle

\* The transform result is validated and, when accepted, published.
publish_on_subject ==
    /\ subj_published = <<>>
    /\ LET canonical_data ==
               apply_jsonata_mapping(subj_transform_result, PyDict(<<>>))
       IN  subj_published' =
               IF canonical_data = PyNone
               THEN << [accepted |-> FALSE, subject |-> <<>>] >>
               ELSE << [accepted |-> TRUE,
                        subject |-> routing_subject(canonical_data)] >>
    /\ UNCHANGED subj_transform_result
    /\ UNCHANGED not_subject_vars

SubjectNext == publish_on_subject

SpecSubject == SubjectInit /\ [][SubjectNext]_vars

(***************************************************************************)
(* Canonicaliser properties.                                               *)
(***************************************************************************)
CanonicalCount(event_id) ==
    Cardinality({k \in DOMAIN canonical_stream : canonical_stream[k].id = event_id})

FailureCount(event_id) ==
    Cardinality({k \in DOMAIN map_fail_stream : map_fail_stream[k].id = event_id})

Logged(message, event_id) == <<message, event_id>> \in map_log

DlqSendFailed(event_id) ==
    Logged("Failed to send mapping failure to DLQ", event_id)

CanonicalSendFailed(event_id) ==
    Logged("Failed to send canonical event to Kafka", event_id)

LookupFailed(event_id) ==
    Logged("Failed to lookup fingerprint mapping", event_id)

LLMCalled(event_id) ==
    Logged("No mapping found, attempting LLM suggestion", event_id)

\* The stored mapping rows whose transform of the event's payload is valid.
ValidStoredMappings(raw_event) ==
    { row \in ingest_mappings :
        /\ row[1] = generate_fingerprint(raw_event.payload)
        /\ apply_jsonata_mapping(row[2], raw_event.payload) # PyNone }

\* C1: every raw event handed to the canonicaliser ends with exactly one
\* output, a canonical event on the canonical stream or a mapping-failure
\* record on the dead-letter subject; never both, never neither.
C1_ExactlyOneOutput ==
    \A event_id \in 1..raw_offset :
        CanonicalCount(event_id) + FailureCount(event_id) = 1

\* The state C1 excludes: a handled event whose mapping failed and whose
\* dead-letter send failed too, left with no output at all.
C1_Witness ==
    \E event_id \in 1..raw_offset :
        /\ DlqSendFailed(event_id)
        /\ CanonicalCount(event_id) = 0
        /\ FailureCount(event_id) = 0

MappingsFor(raw_event) ==
    { row \in ingest_mappings : row[1] = generate_fingerprint(raw_event.payload) }

\* The LLM branch was taken for the event and its transform passed every
\* check: the event went on to be published.
LLMTransformAccepted(event_id) ==
    LLMCalled(event_id) /\ CanonicalCount(event_id) = 1

\* C22: after the canonicaliser has synthesised and validated an LLM
\* transform for a payload that had no stored mapping, the mapping store
\* holds an ingest mapping keyed by that payload's fingerprint.
C22_SynthesisedMappingStored ==
    \A event_id \in 1..raw_offset :
        LLMTransformAccepted(event_id) => MappingsFor(raw_stream[event_id]) # {}

\* The state C22 excludes: an event published from an LLM transform while
\* the store has no mapping for its fingerprint.
C22_Witness ==
    \E event_id \in 1..raw_offset :
        /\ LLMTransformAccepted(event_id)
        /\ MappingsFor(raw_stream[event_id]) = {}

\* (publisher, resource_type, action) of a delivery envelope.
EventTriple(envelope) ==
    <<DictGet(envelope.data, "publisher")[2],
      DictGet(DictGet(envelope.data, "resource"), "type")[2],
      DictGet(envelope.data, "action")[2]>>

\* A register_event_schema call was made, or a registry row exists, for the
\* triple.
UpsertPerformed(triple) ==
    \/ \E i \in DOMAIN registry_tasks :
          /\ registry_tasks[i].pc # "idle"
          /\ registry_tasks[i].triple = triple
    \/ \E k \in DOMAIN registry_rows : registry_rows[k] = triple

\* C34: for every canonical event published, a schema-registry upsert of
\* its (publisher, resource_type, action) triple is performed.
C34_PublishedEventRegistered ==
    \A k \in DOMAIN canonical_stream :
        UpsertPerformed(EventTriple(canonical_stream[k]))

\* The state C34 excludes: an event is on the canonical stream, its handler
\* has returned, and no upsert of its triple was made.
C34_Witness ==
    /\ raw_offset = Len(raw_stream)
    /\ events_mapped = Len(canonical_stream)
    /\ \E k \in DOMAIN canonical_stream :
          ~UpsertPerformed(EventTriple(canonical_stream[k]))

\* The events whose processing ended in failure: handled, and not on the
\* canonical stream.
FailedEvents == { event_id \in 1..raw_offset : CanonicalCount(event_id) = 0 }

\* C27: events_failed grows by exactly one for each raw event whose
\* processing ends in failure (and events_processed by one per event): after
\* a single failed event events_processed = 1 and events_failed = 1.
C27_FailedCountedOnce ==
    /\ events_processed = raw_offset
    /\ events_failed = Cardinality(FailedEvents)

\* The state C27 excludes: one event handled, its canonical send failed,
\* and the failure counted twice.
C27_Witness ==
    /\ events_processed = 1
    /\ CanonicalSendFailed(1)
    /\ events_failed = 2

(***************************************************************************)
(* Subscription properties.                                                *)
(***************************************************************************)
RequestsFor(subscription_id, event) ==
    { r \in webhook_requests :
        r.subscription_id = subscription_id /\ r.event = event }

GateBlocked(subscription_id, event) ==
    \E row \in subscription_event_logs :
        /\ row.subscription_id = subscription_id
        /\ row.event = event
        /\ ~row.webhook_sent

RunningFor(subscription_id) == { c \in consumers : c.id = subscription_id }

SubscriptionIds == 1..(next_subscription_id - 1)

C5_NoConsumerForUsedDisposable ==
    \A c \in consumers :
        /\ HasRow(subscriptions, c.id)
        /\ ~(GetRow(subscriptions, c.id).disposable
             /\ GetRow(subscriptions, c.id).used)

C5_Witness ==
    /\ last_op.op = "restart"
    /\ \E row \in subscriptions :
          /\ row.active /\ row.disposable /\ row.used
          /\ RunningFor(row.id) = {}
          /\ \E event \in 1..Len(canonical_stream) : <<row.id, event>> \notin acked

\* C40 as stated: once a disposable subscription has been marked used, it
\* never again appears in the active set returned to the supervisor,
\* whatever updates are applied afterwards.  (The used flag is set only by
\* the mark.)
C40_UsedNeverActiveAgain ==
    \A row \in subscriptions :
        row.used => row \notin get_all_active_subscriptions(subscriptions)

\* C40, amended: no step clears the used flag of a stored subscription, and
\* a used subscription is outside the active set for as long as it is
\* disposable; an update of active leaves it outside, an update that sets
\* disposable to false brings an active one back.
C40_UsedKeptOutWhileDisposable ==
    [][\A row \in subscriptions :
           row.used =>
               \A after \in subscriptions' :
                   after.id = row.id =>
                       /\ after.used
                       /\ after.disposable =>
                              after \notin
                                  get_all_active_subscriptions(subscriptions')
                       /\ (after.active /\ ~after.disposable) =>
                              after \in
                                  get_all_active_subscriptions(subscriptions')]_vars

C40_Witness ==
    /\ last_op.op = "update"
    /\ last_op.status = 200
    /\ \E row \in subscriptions :
          /\ row.id = last_op.id
          /\ row.used /\ row.disposable /\ row.active
          /\ row \notin get_all_active_subscriptions(subscriptions)
          /\ RunningFor(row.id) = {}

\* C6: when a create, update or delete call has returned successfully, the
\* consumer set reflects the change: a consumer runs for the created
\* subscription, the updated subscription's consumer is the one started from
\* the updated row (none if the row is inactive or a used disposable), and
\* no consumer runs for the deleted subscription.
C6_ConsumersReflectReturnedCall ==
    /\ last_op.op = "create" /\ last_op.status = 201
           => RunningFor(last_op.id) # {}
    /\ last_op.op = "update" /\ last_op.status = 200
           => LET row == GetRow(subscriptions, last_op.id)
              IN  RunningFor(last_op.id) =
                      IF Startable(row) THEN {ConsumerFor(row)} ELSE {}
    /\ last_op.op = "delete" /\ last_op.status = 204
           => RunningFor(last_op.id) = {}

\* The state C6 excludes: a create that returned 201 after the consumer
\* service raised, with no consumer for the new subscription.
C6_Witness ==
    /\ last_op.op = "create"
    /\ last_op.status = 201
    /\ last_op.warning = "Failed to add subscription to consumer service"
    /\ GetRow(subscriptions, last_op.id).active
    /\ RunningFor(last_op.id) = {}

\* The successful webhook requests of a step, sent for disposable
\* subscriptions.
DisposableDeliveries(before, after) ==
    { r \in after \ before : r.disposable /\ webhook_succeeded(r.status) }

C14_NoSchemaRejectedWithoutWrite ==
    [][last_op'.status = 422 =>
          /\ last_op'.op \in {"create", "update"}
          /\ subscriptions' = subscriptions
          /\ next_subscription_id' = next_subscription_id
          /\ consumers' = consumers]_vars

C14_Witness ==
    /\ last_op.op = "update"
    /\ last_op.status = 422
    /\ HasRow(subscriptions, last_op.id)
    /\ GetRow(subscriptions, last_op.id).active
    /\ RunningFor(last_op.id) # {}

C11_RawEventConsumedExactlyOnce ==
    \A i \in 1..raw_topic_end :
        /\ raw_handled[i] <= 1
        /\ i <= raw_committed /\ raw_in_flight # <<i>> => raw_handled[i] = 1

\* The states C11 excludes: a message committed as consumed whose handler
\* never completed, next to a message whose handler completed twice.
C11_Witness ==
    \E i, j \in 1..raw_topic_end :
        /\ i <= raw_committed /\ raw_in_flight = <<>> /\ raw_handled[i] = 0
        /\ raw_handled[j] = 2

(***************************************************************************)
(* Gate evaluator properties.                                              *)
(***************************************************************************)
GateFailedOver ==
    /\ gate_return # <<>>
    /\ \/ ~gate_llm_available
       \/ gate_llm_reply.kind = "raises"

\* C13: if the LLM is unavailable or the LLM call throws during gate
\* evaluation, the returned decision is true when the subscription's failover
\* policy is fail_open and false when it is fail_closed.
C13_FailoverDecisionFollowsPolicy ==
    GateFailedOver =>
        /\ gate_config.failover_policy = <<"fail_open">>
               => gate_return[1].decision
        /\ gate_config.failover_policy = <<"fail_closed">>
               => ~gate_return[1].decision

C13_Witness ==
    /\ GateFailedOver
    /\ gate_llm_available
    /\ gate_llm_reply.kind = "raises"
    /\ gate_config.failover_policy = <<"fail_closed">>
    /\ ~gate_return[1].decision
    /\ <<"block", "evaluation_error">> \in gate_metrics

\* The model was asked and its reply was read (no failover).
GateModelAnswered ==
    /\ gate_return # <<>>
    /\ gate_llm_available
    /\ gate_llm_reply.kind # "raises"

GateModelDecision == parse_llm_response(gate_llm_reply)

GateThreshold == config_get(gate_config.threshold, default_threshold)

\* C26 as stated: an event passes the gate only if the model's decision is
\* true and its reported confidence is at least the subscription's threshold.
\* A fail_open failover passes an event the model never decided on.
C26_PassesOnlyOnConfidentModelDecision ==
    (gate_return # <<>> /\ gate_return[1].decision) =>
        /\ GateModelAnswered
        /\ GateModelDecision.decision
        /\ GateModelDecision.confidence >= GateThreshold

\* C26, amended: when the model answered, the event passes exactly when the
\* model's decision is true and its reported confidence is at least the
\* subscription's threshold; a true decision with confidence below the
\* threshold is blocked.
C26_AnsweredPassesIffConfidentDecision ==
    GateModelAnswered =>
        /\ gate_return[1].decision
               <=> /\ GateModelDecision.decision
                   /\ GateModelDecision.confidence >= GateThreshold
        /\ gate_return[1].confidence = GateModelDecision.confidence

C26_Witness ==
    /\ GateModelAnswered
    /\ gate_llm_reply.decision = <<TRUE>>
    /\ gate_llm_reply.confidence = <<3>>
    /\ gate_config.threshold = <<5>>
    /\ ~gate_return[1].decision
    /\ gate_return[1].confidence = 3
    /\ <<"block", "">> \in gate_metrics

GateParseFailed ==
    /\ GateModelAnswered
    /\ gate_llm_reply.kind = "unparsable"

\* C35: when the LLM's gate response cannot be parsed, the gate decision
\* defaults to false (with confidence 0.0).
C35_UnparsableReplyDecisionFalse ==
    GateParseFailed =>
        /\ ~GateModelDecision.decision
        /\ ~gate_return[1].decision
        /\ gate_return[1].confidence = 0

C35_Witness ==
    /\ GateParseFailed
    /\ gate_config.threshold = <<5>>
    /\ gate_config.failover_policy = <<>>
    /\ ~gate_return[1].decision
    /\ gate_return[1].confidence = 0

\* C36 as stated: on an LLM parse failure the evaluator applies the
\* subscription's failover policy: the event passes under fail_open and is
\* blocked under fail_closed.
C36_ParseFailureFollowsFailoverPolicy ==
    GateParseFailed =>
        /\ gate_config.failover_policy = <<"fail_open">>
               => gate_return[1].decision
        /\ gate_config.failover_policy = <<"fail_closed">>
               => ~gate_return[1].decision

\* C36, amended: a parse failure is not a failover.  The event is blocked
\* under fail_open and under fail_closed alike and is counted as an
\* ordinary block; the failover policy decides only when the LLM is
\* unavailable or the call raises.
C36_ParseFailureBlockedWhateverPolicy ==
    /\ GateParseFailed =>
           /\ ~gate_return[1].decision
           /\ gate_return[1].failover_reason = ""
           /\ gate_metrics = {<<"block", "">>}
    /\ gate_return # <<>> =>
           (gate_return[1].failover_reason # "" <=> GateFailedOver)

C36_Witness ==
    /\ GateParseFailed
    /\ gate_config.failover_policy = <<"fail_open">>
    /\ ~gate_return[1].decision
    /\ gate_metrics = {<<"block", "">>}

\* The model answered in the format the compiled gate prompts ask for:
\* {"decision": true} with no confidence field.
GateDecisionOnlyYes ==
    /\ GateModelAnswered
    /\ gate_llm_reply.kind = "json"
    /\ gate_llm_reply.decision = <<TRUE>>
    /\ gate_llm_reply.confidence = <<>>

\* C39: when the model's gate response is a JSON object with decision true
\* and no confidence field, the event passes the gate.
C39_DecisionOnlyReplyPasses ==
    GateDecisionOnlyYes => gate_return[1].decision

\* The state C39 excludes: the model said yes in the prompted format and the
\* event is blocked under the default threshold.
C39_Witness ==
    /\ GateDecisionOnlyYes
    /\ gate_config.threshold = <<>>
    /\ ~gate_return[1].decision
    /\ gate_return[1].confidence = 0
    /\ gate_metrics = {<<"block", "">>}

(***************************************************************************)
(* Ingest endpoint properties.                                             *)
(***************************************************************************)
RawRecords(request_id) ==
    {k \in DOMAIN ingest_raw_topic : ingest_raw_topic[k].id = request_id}

DeadLetters(request_id) ==
    {k \in DOMAIN ingest_dlq_topic : ingest_dlq_topic[k].id = request_id}

\* C16: a request rejected at the HTTP boundary (413 oversize body, 400
\* invalid JSON, 401 invalid signature) never has a raw-event record on the
\* raw stream.
C16_RejectedRequestNotPublished ==
    \A k \in DOMAIN ingest_requests :
        ingest_requests[k].status \in {413, 400, 401}
            => RawRecords(ingest_requests[k].request_id) = {}

C16_Witness ==
    \E j, k \in DOMAIN ingest_requests :
        /\ ingest_requests[j].status = 401
        /\ ingest_requests[j].request.json_ok
        /\ ingest_requests[k].status = 202
        /\ Len(ingest_raw_topic) = 1
        /\ ingest_raw_topic[1].id = ingest_requests[k].request_id

\* C17: a request whose body (within the size cap) is not valid JSON has one
\* dead-letter record published for it and is answered with 400.
C17_InvalidJsonDeadLetteredAnd400 ==
    \A k \in DOMAIN ingest_requests :
        LET handled == ingest_requests[k]
        IN  handled.request.body_size <= max_body_bytes /\ ~handled.request.json_ok
                => /\ handled.status = 400
                   /\ Cardinality(DeadLetters(handled.request_id)) = 1

\* The state C17 excludes: invalid JSON answered with 400 after the send to
\* the dead-letter topic failed, with no dead-letter record for the request.
C17_Witness ==
    \E k \in DOMAIN ingest_requests :
        /\ ~ingest_requests[k].request.json_ok
        /\ ingest_requests[k].status = 400
        /\ <<"Failed to send event to DLQ", ingest_requests[k].request_id>>
              \in ingest_log
        /\ DeadLetters(ingest_requests[k].request_id) = {}

\* C18: the ingest endpoint answers 202 only when the raw-event record has
\* been published on the raw stream; if publishing fails, the answer is not
\* 202.
C18_AcceptedOnlyAfterPublish ==
    \A k \in DOMAIN ingest_requests :
        LET handled == ingest_requests[k]
        IN  /\ handled.status = 202
                => Cardinality(RawRecords(handled.request_id)) = 1
            /\ <<"Failed to send event to Kafka", handled.request_id>> \in ingest_log
                => handled.status # 202 /\ RawRecords(handled.request_id) = {}

C18_Witness ==
    \E j, k \in DOMAIN ingest_requests :
        /\ ingest_requests[j].status = 500
        /\ <<"Failed to send event to Kafka", ingest_requests[j].request_id>>
              \in ingest_log
        /\ ingest_requests[k].status = 202
        /\ RawRecords(ingest_requests[k].request_id) # {}

(***************************************************************************)
(* Schema registry properties.                                             *)
(***************************************************************************)
EntryCount(triple) ==
    Cardinality({k \in DOMAIN registry_rows : registry_rows[k] = triple})

Registered(i) ==
    /\ registry_tasks[i].pc = "done"
    /\ ~registry_tasks[i].failed

\* C19: concurrent registrations of the same (publisher, resource_type,
\* action) triple, in any interleaving, leave exactly one schema-registry
\* entry for that triple.
C19_OneEntryPerTriple ==
    \A triple \in Triples :
        /\ EntryCount(triple) <= 1
        /\ (\E i \in DOMAIN registry_tasks :
               Registered(i) /\ registry_tasks[i].triple = triple)
              => EntryCount(triple) = 1

C19_Witness ==
    \E i, j \in DOMAIN registry_tasks :
        /\ i # j
        /\ Registered(i) /\ Registered(j)
        /\ registry_tasks[i].triple = registry_tasks[j].triple
        /\ registry_tasks[j].waited
        /\ EntryCount(registry_tasks[i].triple) = 1

EnvelopeKeys == {"user", "id", "x", "missing", "field"}

HasKey(value, key) == IsDict(value) /\ key \in DictKeys(value)

\* The values an id names in a payload when read as a dotted path of two
\* or three keys.
DottedPathValues(resource_id, payload) ==
    { DictGet(DictGet(payload, kk[1]), kk[2]) :
        kk \in { kk \in EnvelopeKeys \X EnvelopeKeys :
                    /\ resource_id = PyStr(<<kk[1], ".", kk[2]>>)
                    /\ HasKey(payload, kk[1])
                    /\ HasKey(DictGet(payload, kk[1]), kk[2]) } }
    \cup
    { DictGet(DictGet(DictGet(payload, kk[1]), kk[2]), kk[3]) :
        kk \in { kk \in EnvelopeKeys \X EnvelopeKeys \X EnvelopeKeys :
                    /\ resource_id = PyStr(<<kk[1], ".", kk[2], ".", kk[3]>>)
                    /\ HasKey(payload, kk[1])
                    /\ HasKey(DictGet(payload, kk[1]), kk[2])
                    /\ HasKey(DictGet(DictGet(payload, kk[1]), kk[2]), kk[3]) } }

EnvelopeBuilt == env_result # <<>> /\ ~env_result.raised

SupervisedRunning(subscription_id) ==
    { c \in sup_running : c.id = subscription_id }

AllNotFound(log) == \A i \in 1..Len(log) : log[i] = "stream not found"

\* C24: at startup "stream not found" is retried, with a doubling delay
\* between attempts, for at most the configured number of attempts; when
\* the stream is still missing at the last attempt startup fails, and the
\* consumer never proceeds to fetch without having found the stream.
C24_StreamNotFoundRetriesBounded ==
    /\ Len(stream_startup_log) <= stream_max_retries
    /\ Len(stream_startup_log) = stream_max_retries
        /\ AllNotFound(stream_startup_log)
           => stream_pc = "failed"
    /\ stream_pc = "failed" /\ AllNotFound(stream_startup_log)
           => Len(stream_startup_log) = stream_max_retries
    /\ stream_pc = "startup" => AllNotFound(stream_startup_log)
    /\ stream_pc = "consuming" =>
           stream_startup_log[Len(stream_startup_log)] = "found"
    /\ AllNotFound(stream_startup_log) =>
           /\ Len(stream_sleeps) =
                  IF stream_pc = "failed" THEN Len(stream_startup_log) - 1
                  ELSE Len(stream_startup_log)
           /\ \A i \in 1..Len(stream_sleeps) :
                  stream_sleeps[i] = IF i = 1 THEN 1 ELSE 2 * stream_sleeps[i - 1]

\* Startup has failed after three attempts that all found no stream, with
\* delays 1 and 2 slept between them.
C24_Witness ==
    /\ stream_max_retries = 3
    /\ stream_pc = "failed"
    /\ stream_startup_log =
           <<"stream not found", "stream not found", "stream not found">>
    /\ stream_sleeps = <<1, 2>>

\* The number of service-unavailable fetches that end at fetch k with no
\* other outcome and no reset in between.
RECURSIVE UnavailableRun(_)
UnavailableRun(k) ==
    IF k = 0 THEN 0
    ELSE IF stream_fetch_log[k].outcome # "service unavailable" THEN 0
    ELSE IF k > 1 /\ stream_fetch_log[k - 1].reset THEN 1
    ELSE 1 + UnavailableRun(k - 1)

\* C25: the third of three consecutive "service unavailable" errors of the
\* fetch loop resets the connection, and nothing else does.
C25_ThreeUnavailableResetConnection ==
    \A k \in 1..Len(stream_fetch_log) :
        stream_fetch_log[k].reset <=> UnavailableRun(k) = 3

\* Three errors in a row after a good fetch: the third reset the connection
\* and the consumer is starting again.
C25_Witness ==
    /\ Len(stream_fetch_log) = 4
    /\ stream_fetch_log[1].outcome = "messages"
    /\ \A k \in 2..4 : stream_fetch_log[k].outcome = "service unavailable"
    /\ ~stream_fetch_log[3].reset
    /\ stream_fetch_log[4].reset
    /\ stream_pc = "startup"
    /\ stream_startup_log = <<>>

(***************************************************************************)
(* Ingest-mapping table properties.                                        *)
(***************************************************************************)
DuplicateInsert(task) ==
    MapStoreLog("Failed to store mapping from canonical data", task,
                "IntegrityError") \in mapstore_log

LastHandling(message) == dlv_history[message][Len(dlv_history[message])]

RaisedLast(message) ==
    /\ dlv_history[message] # <<>>
    /\ LastHandling(message) \in RaisedOutcomes

\* C31: if the handler raises before the ack step, the message is left
\* un-acknowledged and the stream redelivers it to that consumer: a message
\* is acknowledged only by a handling that did not raise, and once the
\* consumer is free the stream can hand the message out again.
C31_RaisedBeforeAckRedelivered ==
    \A message \in StreamMessages :
        /\ RaisedLast(message) => message \in dlv_unacked
        /\ message \notin dlv_unacked =>
               /\ dlv_history[message] # <<>>
               /\ LastHandling(message) \notin RaisedOutcomes
        /\ (/\ RaisedLast(message)
            /\ dlv_in_flight = <<>>
            /\ Len(dlv_history[message]) < MaxDeliveries)
               => ENABLED deliver_message(message)
        /\ \A k \in 1..(Len(dlv_history[message]) - 1) :
               dlv_history[message][k] \in RaisedOutcomes

C31_Witness ==
    /\ dlv_history[1] = <<"raised_event_log", "delivered">>
    /\ 1 \notin dlv_unacked
    /\ dlv_webhooks[1] = 2
    /\ <<1, "raised_event_log">> \in dlv_log

(***************************************************************************)
(* Raw consumer loop properties.                                           *)
(***************************************************************************)
\* C32: the raw consumer processes raw events one at a time, and the
\* canonical events it publishes are on the canonical stream in the same
\* relative order as their raw events within the pulled batch.
C32_OneAtATimeInBatchOrder ==
    /\ Cardinality(loop_in_flight) <= 1
    /\ \A k, l \in DOMAIN loop_canonical :
           k < l => loop_canonical[k] < loop_canonical[l]
    /\ \A k \in DOMAIN loop_canonical : loop_canonical[k] < loop_next

C32_Witness ==
    /\ loop_batch = <<"mapped", "mapped">>
    /\ loop_canonical = <<1, 2>>
    /\ loop_in_flight = {}

HandlingRaised(index) ==
    \/ <<"Failed to process raw event", index>> \in loop_log
    \/ <<"Error processing message", index>> \in loop_log

Handled(index) == index < loop_next /\ index \notin loop_in_flight

\* C33: an exception raised while handling one event is caught and logged,
\* and the consumer goes on to the following events; a single bad event
\* never terminates the consumer task.
C33_BadEventDoesNotStopConsumer ==
    /\ \A index \in DOMAIN loop_batch :
           (Handled(index) /\ loop_batch[index] \in {"invalid", "malformed"})
               => HandlingRaised(index)
    /\ loop_task = "terminated"
           <=> <<"Error in message consumption loop", 0>> \in loop_log
    /\ (/\ loop_task = "running"
        /\ loop_in_flight = {}
        /\ loop_next <= Len(loop_batch))
           => ENABLED take_message

C33_Witness ==
    /\ loop_batch = <<"malformed", "mapped">>
    /\ <<"Error processing message", 1>> \in loop_log
    /\ loop_canonical = <<2>>
    /\ loop_task = "running"

(***************************************************************************)
(* Pattern compiler properties.                                            *)
(***************************************************************************)
\* The gate is enabled and the model answered with a pattern and no gate
\* prompt.
PatternOnlyAnswer ==
    /\ compile_result # <<>>
    /\ compile_gate_enabled
    /\ compile_llm_available
    /\ compile_response.kind \in {"json", "text"}
    /\ compile_response.pattern # <<>>
    /\ compile_response.gate_prompt = <<>>

\* C37: when the gate is enabled and the LLM returns only a pattern (no
\* gate_prompt), the compiled gate prompt is the subscription's description
\* itself.
C37_PatternOnlyUsesDescription ==
    PatternOnlyAnswer =>
        compile_result[1].gate_prompt = <<compile_description>>

\* The states C37 excludes: a plain-text pattern compiled with the generic
\* gate prompt, which does not mention the description.
C37_Witness ==
    /\ PatternOnlyAnswer
    /\ compile_response.kind = "text"
    /\ compile_result[1].pattern = <<LLMPattern>>
    /\ compile_result[1].gate_prompt = <<generic_gate_prompt>>

(***************************************************************************)
(* Routing subject properties.                                             *)
(***************************************************************************)
SubjectPublished == subj_published # <<>> /\ subj_published[1].accepted

\* C38: every routing subject on which a canonical event is published has
\* exactly six dot-separated tokens (langhook, events, publisher,
\* resource_type, resource_id, action); a resource id accepted by validation
\* never adds extra tokens.
C38_SubjectHasSixTokens ==
    SubjectPublished => Len(subject_tokens(subj_published[1].subject)) = 6

\* The state C38 excludes: the Slack message id 1728447902.000200 passes the
\* id validation and the subject has seven tokens.
C38_Witness ==
    /\ SubjectPublished
    /\ DictGet(DictGet(subj_transform_result, "resource"), "id")
           = PyStr(<<"1728447902", ".", "000200">>)
    /\ subject_tokens(subj_published[1].subject)
           = << <<"langhook">>, <<"events">>, <<"slack">>, <<"message">>,
                <<"1728447902">>, <<"000200">>, <<"created">> >>

====
